---- MODULE Spec2Model ----
(***************************************************************************)
(* Similarity engine of Identity Map (lib/similarity.ts).                  *)
(*                                                                         *)
(* Strings are sequences of one-character strings over ASCII.  JavaScript  *)
(* numbers are modelled as exact non-negative rationals [num, den] in      *)
(* lowest terms; den = 0 encodes the non-finite results of a division by   *)
(* zero (0/0 = NaN, n/0 = Infinity).  Rounding of IEEE doubles is not      *)
(* modelled.                                                               *)
(***************************************************************************)
EXTENDS Integers, Sequences, FiniteSets, TLC

VARIABLES op, args, ret, pc, history,
          sessions, participant, identity_item, uuids, now,
          localStorage, joinPage, mePage, mapPage, request, adminPage

engineVars == <<op, args, ret, pc, history>>

storeVars == <<sessions, participant, identity_item, uuids, now>>

appVars == <<sessions, participant, identity_item, uuids, now,
             localStorage, joinPage, mePage, mapPage, request, adminPage>>

vars == <<op, args, ret, pc, history,
          sessions, participant, identity_item, uuids, now,
          localStorage, joinPage, mePage, mapPage, request, adminPage>>

-----------------------------------------------------------------------------
(* Characters and strings *)

Uppers == <<"A", "B", "C", "D", "E", "F", "G", "H", "I", "J", "K", "L", "M", "N", "O", "P", "Q", "R", "S", "T", "U", "V", "W", "X", "Y", "Z">>

Lowers == <<"a", "b", "c", "d", "e", "f", "g", "h", "i", "j", "k", "l", "m", "n", "o", "p", "q", "r", "s", "t", "u", "v", "w", "x", "y", "z">>

Digits == <<"0", "1", "2", "3", "4", "5", "6", "7", "8", "9">>

Range(s) == {s[i] : i \in DOMAIN s}

WhiteSpace == {" ", "\t", "\n"}

UpperSet == Range(Uppers)

AlnumSet == Range(Lowers) \cup Range(Digits)

LowerOf ==
  [c \in UpperSet |-> Lowers[CHOOSE i \in DOMAIN Uppers : Uppers[i] = c]]

IsSpace(c) == c \in WhiteSpace

\* [a-z0-9]
IsAlnum(c) == c \in AlnumSet

toLowerChar(c) == IF c \in UpperSet THEN LowerOf[c] ELSE c

toLowerCase(s) == [i \in DOMAIN s |-> toLowerChar(s[i])]

RECURSIVE trimStart(_)
trimStart(s) ==
  IF s # <<>> /\ IsSpace(Head(s)) THEN trimStart(Tail(s)) ELSE s

RECURSIVE trimEnd(_)
trimEnd(s) ==
  IF s # <<>> /\ IsSpace(s[Len(s)])
    THEN trimEnd(SubSeq(s, 1, Len(s) - 1))
    ELSE s

trim(s) == trimEnd(trimStart(s))

endsWith(s, suffix) ==
  /\ Len(s) >= Len(suffix)
  /\ SubSeq(s, Len(s) - Len(suffix) + 1, Len(s)) = suffix

\* s.slice(0, -n)
sliceEnd(s, n) == SubSeq(s, 1, Len(s) - n)

Min(x, y) == IF x <= y THEN x ELSE y

Max(x, y) == IF x >= y THEN x ELSE y

-----------------------------------------------------------------------------
(* Numbers *)

RECURSIVE GCD(_, _)
GCD(x, y) == IF y = 0 THEN x ELSE GCD(y, x % y)

NaN == [num |-> 0, den |-> 0]

Infinity == [num |-> 1, den |-> 0]

Rat(n, d) ==
  IF d = 0 THEN (IF n = 0 THEN NaN ELSE Infinity)
  ELSE [num |-> n \div GCD(n, d), den |-> d \div GCD(n, d)]

Num(n) == Rat(n, 1)

IsFinite(x) == x.den # 0

\* x * y
Mul(x, y) ==
  IF x = NaN \/ y = NaN THEN NaN
  ELSE IF ~IsFinite(x) \/ ~IsFinite(y)
    THEN (IF x.num = 0 \/ y.num = 0 THEN NaN ELSE Infinity)
  ELSE Rat(x.num * y.num, x.den * y.den)

\* x + y
Add(x, y) ==
  IF x = NaN \/ y = NaN THEN NaN
  ELSE IF ~IsFinite(x) \/ ~IsFinite(y) THEN Infinity
  ELSE Rat(x.num * y.den + y.num * x.den, x.den * y.den)

\* x / y
Div(x, y) ==
  IF x = NaN \/ y = NaN THEN NaN
  ELSE IF ~IsFinite(x) THEN (IF IsFinite(y) THEN Infinity ELSE NaN)
  ELSE IF ~IsFinite(y) THEN Num(0)
  ELSE Rat(x.num * y.den, x.den * y.num)

-----------------------------------------------------------------------------
(* Tokenizer *)

STOP_WORDS ==
  { <<"t", "h", "e">>, <<"a">>, <<"a", "n">>, <<"a", "n", "d">>, <<"o", "r">>, <<"b", "u", "t">>, <<"i", "f">>, <<"o", "n">>,
    <<"i", "n">>, <<"w", "i", "t", "h">>, <<"t", "o">>, <<"f", "o", "r">>, <<"o", "f">>, <<"b", "y">>, <<"i", "s">>, <<"a", "r", "e">>,
    <<"a", "m">>, <<"b", "e">>, <<"w", "a", "s">>, <<"w", "e", "r", "e">>, <<"t", "h", "i", "s">>, <<"t", "h", "a", "t">> }

\* the stemmer stripping 'ed' from every token longer than the suffix
simpleStemShortEd(token) ==
  IF endsWith(token, <<"i", "n", "g">>) /\ Len(token) > 4 THEN sliceEnd(token, 3)
  ELSE IF endsWith(token, <<"e", "d">>) /\ Len(token) > 2 THEN sliceEnd(token, 2)
  ELSE IF endsWith(token, <<"s">>) /\ Len(token) > 3 THEN sliceEnd(token, 1)
  ELSE token

\* the stemmer stripping 'ing' from every token longer than the suffix
simpleStemShortIng(token) ==
  IF endsWith(token, <<"i", "n", "g">>) /\ Len(token) > 3 THEN sliceEnd(token, 3)
  ELSE IF endsWith(token, <<"e", "d">>) /\ Len(token) > 3 THEN sliceEnd(token, 2)
  ELSE IF endsWith(token, <<"s">>) /\ Len(token) > 3 THEN sliceEnd(token, 1)
  ELSE token

simpleStem(token) ==
  IF endsWith(token, <<"i", "n", "g">>) /\ Len(token) > 4 THEN sliceEnd(token, 3)
  ELSE IF endsWith(token, <<"e", "d">>) /\ Len(token) > 3 THEN sliceEnd(token, 2)
  ELSE IF endsWith(token, <<"s">>) /\ Len(token) > 3 THEN sliceEnd(token, 1)
  ELSE token

\* the replacement applied to the text as typed, not lowercased
cleanedNoLower(text) ==
  [i \in DOMAIN text |->
     IF IsAlnum(text[i]) \/ IsSpace(text[i]) THEN text[i] ELSE " "]

\* text.toLowerCase().replace(/[^a-z0-9\s]/g, ' ')
cleaned(text) ==
  [i \in DOMAIN text |->
     LET c == toLowerChar(text[i])
     IN  IF IsAlnum(c) \/ IsSpace(c) THEN c ELSE " "]

\* s.split(/\s+/): the pieces between maximal whitespace runs, the empty
\* pieces at either end included.
RECURSIVE splitFrom(_, _, _, _)
splitFrom(s, i, cur, acc) ==
  IF i > Len(s) THEN Append(acc, cur)
  ELSE IF IsSpace(s[i])
    THEN IF i > 1 /\ IsSpace(s[i - 1])
           THEN splitFrom(s, i + 1, cur, acc)
           ELSE splitFrom(s, i + 1, <<>>, Append(acc, cur))
    ELSE splitFrom(s, i + 1, Append(cur, s[i]), acc)

split(s) == splitFrom(s, 1, <<>>, <<>>)

NonEmpty(t) == Len(t) > 0

\* a filter that lets every token through
AnyToken(t) == TRUE

\* (t) => !STOP_WORDS.has(t)
NotStopWord(t) == t \notin STOP_WORDS

tokenize(text) ==
  LET rawTokens == SelectSeq(split(cleaned(text)), NonEmpty)
      kept      == SelectSeq(rawTokens, NotStopWord)
  IN  [i \in DOMAIN kept |-> simpleStem(kept[i])]

\* the entries joined into one string before tokenizing
RECURSIVE joinAll(_)
joinAll(texts) == IF texts = <<>> THEN <<>> ELSE Head(texts) \o joinAll(Tail(texts))

tokenizeJoined(texts) == tokenize(joinAll(texts))

\* array.flatMap((t) => tokenize(t))
RECURSIVE flatMapTokenize(_)
flatMapTokenize(texts) ==
  IF texts = <<>> THEN <<>>
  ELSE tokenize(Head(texts)) \o flatMapTokenize(Tail(texts))

-----------------------------------------------------------------------------
(* Insertion-ordered Map<string, number>: a sequence of <<key, value>> *)

mapHas(m, key) == \E i \in DOMAIN m : m[i][1] = key

\* m.get(key) ?? 0
mapGet(m, key) ==
  IF mapHas(m, key)
    THEN m[CHOOSE i \in DOMAIN m : m[i][1] = key][2]
    ELSE 0

\* m.set(key, v): an existing key keeps its position
mapSet(m, key, v) ==
  IF mapHas(m, key)
    THEN [i \in DOMAIN m |-> IF m[i][1] = key THEN <<key, v>> ELSE m[i]]
    ELSE Append(m, <<key, v>>)

mapKeys(m) == [i \in DOMAIN m |-> m[i][1]]

normKey(item) == toLowerCase(trim(item.value))

\* the loop keeping the last weight of a duplicate instead of the maximum
RECURSIVE buildMapLastWins(_, _)
buildMapLastWins(items, m) ==
  IF items = <<>> THEN m
  ELSE buildMapLastWins(Tail(items),
                        mapSet(m, toLowerCase(trim(Head(items).value)),
                               Head(items).weight))

\* the loop that fills mapA / mapB: duplicates keep the maximum weight
RECURSIVE buildMap(_, _)
buildMap(items, m) ==
  IF items = <<>> THEN m
  ELSE LET key == normKey(Head(items))
       IN  buildMap(Tail(items),
                    mapSet(m, key, Max(mapGet(m, key), Head(items).weight)))

\* new Set([...mapA.keys(), ...mapB.keys()]) in insertion order
RECURSIVE dedup(_, _)
dedup(s, acc) ==
  IF s = <<>> THEN acc
  ELSE dedup(Tail(s),
             IF Head(s) \in Range(acc) THEN acc ELSE Append(acc, Head(s)))

\* the keys of the first side alone
keysOfFirstSide(mapA, mapB) == mapKeys(mapA)

allKeysOf(mapA, mapB) == dedup(mapKeys(mapA) \o mapKeys(mapB), <<>>)

-----------------------------------------------------------------------------
(* Weighted Jaccard over tags *)

RECURSIVE sumMin(_, _, _)
sumMin(keys, mapA, mapB) ==
  IF keys = <<>> THEN 0
  ELSE Min(mapGet(mapA, Head(keys)), mapGet(mapB, Head(keys)))
         + sumMin(Tail(keys), mapA, mapB)

\* the denominator adding both weights of a key
RECURSIVE sumBoth(_, _, _)
sumBoth(keys, mapA, mapB) ==
  IF keys = <<>> THEN 0
  ELSE mapGet(mapA, Head(keys)) + mapGet(mapB, Head(keys))
         + sumBoth(Tail(keys), mapA, mapB)

RECURSIVE sumMax(_, _, _)
sumMax(keys, mapA, mapB) ==
  IF keys = <<>> THEN 0
  ELSE Max(mapGet(mapA, Head(keys)), mapGet(mapB, Head(keys)))
         + sumMax(Tail(keys), mapA, mapB)

\* weightedJaccard summing over the keys of a alone
weightedJaccardKeysOfA(a, b) ==
  LET mapA        == buildMap(a, <<>>)
      mapB        == buildMap(b, <<>>)
      allKeys     == mapKeys(mapA)
      numerator   == sumMin(allKeys, mapA, mapB)
      denominator == sumMax(allKeys, mapA, mapB)
  IN  IF Len(allKeys) = 0 THEN Num(0)
      ELSE IF denominator = 0 THEN Num(0)
      ELSE Rat(numerator, denominator)

\* weightedJaccard without its two guards against an empty union
weightedJaccardNoGuard(a, b) ==
  LET mapA    == buildMap(a, <<>>)
      mapB    == buildMap(b, <<>>)
      allKeys == allKeysOf(mapA, mapB)
  IN  Rat(sumMin(allKeys, mapA, mapB), sumMax(allKeys, mapA, mapB))

weightedJaccard(a, b) ==
  LET mapA        == buildMap(a, <<>>)
      mapB        == buildMap(b, <<>>)
      allKeys     == allKeysOf(mapA, mapB)
      numerator   == sumMin(allKeys, mapA, mapB)
      denominator == sumMax(allKeys, mapA, mapB)
  IN  IF Len(allKeys) = 0 THEN Num(0)
      ELSE IF denominator = 0 THEN Num(0)
      ELSE Rat(numerator, denominator)

-----------------------------------------------------------------------------
(* Text Jaccard over tokens *)

\* for (const t of setA) if (setB.has(t)) intersection++
RECURSIVE countIn(_, _)
countIn(setA, setB) ==
  IF setA = <<>> THEN 0
  ELSE (IF Head(setA) \in Range(setB) THEN 1 ELSE 0) + countIn(Tail(setA), setB)

\* textJaccard taking |A| + |B| for the size of the union
textJaccardSumUnion(aTokens, bTokens) ==
  LET setA         == dedup(aTokens, <<>>)
      setB         == dedup(bTokens, <<>>)
      intersection == countIn(setA, setB)
      unionSize    == Len(setA) + Len(setB)
  IN  IF Len(setA) = 0 /\ Len(setB) = 0 THEN Num(0)
      ELSE IF unionSize = 0 THEN Num(0)
      ELSE Rat(intersection, unionSize)

\* textJaccard counting every occurrence of a shared token
textJaccardCountsRepeats(aTokens, bTokens) ==
  LET setA         == dedup(aTokens, <<>>)
      setB         == dedup(bTokens, <<>>)
      intersection == countIn(aTokens, setB)
      unionSize    == Len(dedup(setA \o setB, <<>>))
  IN  IF Len(setA) = 0 /\ Len(setB) = 0 THEN Num(0)
      ELSE IF unionSize = 0 THEN Num(0)
      ELSE Rat(intersection, unionSize)

\* a Set is its elements in insertion order, each once
textJaccard(aTokens, bTokens) ==
  LET setA         == dedup(aTokens, <<>>)
      setB         == dedup(bTokens, <<>>)
      intersection == countIn(setA, setB)
      unionSize    == Len(dedup(setA \o setB, <<>>))
  IN  IF Len(setA) = 0 /\ Len(setB) = 0 THEN Num(0)
      ELSE IF unionSize = 0 THEN Num(0)
      ELSE Rat(intersection, unionSize)

-----------------------------------------------------------------------------
(* Lens combiner *)

TAG_BLEND == Rat(7, 10)

TEXT_BLEND == Rat(3, 10)

\* the lens combiner adding the two similarities unblended
computeLensSimilarityUnblended(a, aTexts, b, bTexts) ==
  Add(weightedJaccard(a, b), textJaccard(aTexts, bTexts))

computeLensSimilarity(a, aTexts, b, bTexts) ==
  LET jw == weightedJaccard(a, b)
      tj == textJaccard(aTexts, bTexts)
  IN  Add(Mul(TAG_BLEND, jw), Mul(TEXT_BLEND, tj))

-----------------------------------------------------------------------------
(* Explainer *)

\* the loop with "if (wA > 0)" in place of "else if (wA > 0)"
RECURSIVE classifyNoElse(_, _, _, _)
classifyNoElse(keys, mapA, mapB, acc) ==
  IF keys = <<>> THEN acc
  ELSE LET key == Head(keys)
           wA  == mapGet(mapA, key)
           wB  == mapGet(mapB, key)
           nxt == [overlap   |-> IF wA > 0 /\ wB > 0
                                   THEN Append(acc.overlap, key)
                                   ELSE acc.overlap,
                   uniqueA   |-> IF wA > 0
                                   THEN Append(acc.uniqueA, key)
                                   ELSE acc.uniqueA,
                   uniqueB   |-> IF ~(wA > 0)
                                   THEN Append(acc.uniqueB, key)
                                   ELSE acc.uniqueB,
                   weightMap |-> mapSet(acc.weightMap, key, Max(wA, wB))]
       IN  classifyNoElse(Tail(keys), mapA, mapB, nxt)

\* the loop over allKeys: acc collects overlap, uniqueA, uniqueB, weightMap
RECURSIVE classify(_, _, _, _)
classify(keys, mapA, mapB, acc) ==
  IF keys = <<>> THEN acc
  ELSE LET key == Head(keys)
           wA  == mapGet(mapA, key)
           wB  == mapGet(mapB, key)
           nxt == [overlap   |-> IF wA > 0 /\ wB > 0
                                   THEN Append(acc.overlap, key)
                                   ELSE acc.overlap,
                   uniqueA   |-> IF ~(wA > 0 /\ wB > 0) /\ wA > 0
                                   THEN Append(acc.uniqueA, key)
                                   ELSE acc.uniqueA,
                   uniqueB   |-> IF ~(wA > 0 /\ wB > 0) /\ ~(wA > 0)
                                   THEN Append(acc.uniqueB, key)
                                   ELSE acc.uniqueB,
                   weightMap |-> mapSet(acc.weightMap, key, Max(wA, wB))]
       IN  classify(Tail(keys), mapA, mapB, nxt)

\* the sort placing an entry before the entries of equal weight
RECURSIVE insertDescBeforeEqual(_, _)
insertDescBeforeEqual(sorted, e) ==
  IF sorted = <<>> THEN <<e>>
  ELSE IF Head(sorted)[2] > e[2]
    THEN <<Head(sorted)>> \o insertDescBeforeEqual(Tail(sorted), e)
    ELSE <<e>> \o sorted

\* entries.sort(([, w1], [, w2]) => w2 - w1): stable, descending by weight
RECURSIVE insertDesc(_, _)
insertDesc(sorted, e) ==
  IF sorted = <<>> THEN <<e>>
  ELSE IF Head(sorted)[2] >= e[2]
    THEN <<Head(sorted)>> \o insertDesc(Tail(sorted), e)
    ELSE <<e>> \o sorted

RECURSIVE sortDesc(_, _)
sortDesc(entries, acc) ==
  IF entries = <<>> THEN acc
  ELSE sortDesc(Tail(entries), insertDesc(acc, Head(entries)))

\* array.slice(0, n)
sliceFront(s, n) == SubSeq(s, 1, Min(n, Len(s)))

TOP_WEIGHTS == 3

explainLens(a, b) ==
  LET mapA    == buildMap(a, <<>>)
      mapB    == buildMap(b, <<>>)
      allKeys == allKeysOf(mapA, mapB)
      parts   == classify(allKeys, mapA, mapB,
                          [overlap |-> <<>>, uniqueA |-> <<>>,
                           uniqueB |-> <<>>, weightMap |-> <<>>])
  IN  [overlap    |-> parts.overlap,
       uniqueA    |-> parts.uniqueA,
       uniqueB    |-> parts.uniqueB,
       topWeights |-> mapKeys(sliceFront(sortDesc(parts.weightMap, <<>>),
                                         TOP_WEIGHTS))]

-----------------------------------------------------------------------------
(* Overall aggregator *)

Lens == {"GIVEN", "CHOSEN", "CORE"}

LensOrder == <<"GIVEN", "CHOSEN", "CORE">>

lensWeights ==
  [lens \in Lens |->
     CASE lens = "GIVEN"  -> Rat(8, 10)
       [] lens = "CHOSEN" -> Rat(10, 10)
       [] lens = "CORE"   -> Rat(12, 10)]

NoExplanation ==
  [score |-> Num(0), overlapTags |-> <<>>, uniqueToA |-> <<>>,
   uniqueToB |-> <<>>, topWeights |-> <<>>]

\* an iteration that leaves a lens empty on both sides out of the average
lensStepSkipEmpty(acc, a, b, lens) ==
  LET aTexts == flatMapTokenize(a.texts[lens])
      bTexts == flatMapTokenize(b.texts[lens])
      score  == computeLensSimilarity(a.tags[lens], aTexts, b.tags[lens], bTexts)
      exp    == explainLens(a.tags[lens], b.tags[lens])
      empty  == /\ a.tags[lens] = <<>> /\ a.texts[lens] = <<>>
                /\ b.tags[lens] = <<>> /\ b.texts[lens] = <<>>
  IN  [scores       |-> [acc.scores EXCEPT ![lens] = score],
       explanations |-> [acc.explanations EXCEPT ![lens] =
                           [score       |-> score,
                            overlapTags |-> exp.overlap,
                            uniqueToA   |-> exp.uniqueA,
                            uniqueToB   |-> exp.uniqueB,
                            topWeights  |-> exp.topWeights]],
       weightedSum  |-> Add(acc.weightedSum, Mul(score, lensWeights[lens])),
       weightTotal  |-> IF empty THEN acc.weightTotal
                        ELSE Add(acc.weightTotal, lensWeights[lens])]

\* one iteration of the forEach over the lenses
lensStep(acc, a, b, lens) ==
  LET aTags  == a.tags[lens]
      bTags  == b.tags[lens]
      aTexts == flatMapTokenize(a.texts[lens])
      bTexts == flatMapTokenize(b.texts[lens])
      score  == computeLensSimilarity(aTags, aTexts, bTags, bTexts)
      exp    == explainLens(aTags, bTags)
  IN  [scores       |-> [acc.scores EXCEPT ![lens] = score],
       explanations |-> [acc.explanations EXCEPT ![lens] =
                           [score       |-> score,
                            overlapTags |-> exp.overlap,
                            uniqueToA   |-> exp.uniqueA,
                            uniqueToB   |-> exp.uniqueB,
                            topWeights  |-> exp.topWeights]],
       weightedSum  |-> Add(acc.weightedSum, Mul(score, lensWeights[lens])),
       weightTotal  |-> Add(acc.weightTotal, lensWeights[lens])]

RECURSIVE forEachLens(_, _, _, _)
forEachLens(lenses, acc, a, b) ==
  IF lenses = <<>> THEN acc
  ELSE forEachLens(Tail(lenses), lensStep(acc, a, b, Head(lenses)), a, b)

computeSimilarity(a, b) ==
  LET end == forEachLens(LensOrder,
                         [scores       |-> [lens \in Lens |-> Num(0)],
                          explanations |-> [lens \in Lens |-> NoExplanation],
                          weightedSum  |-> Num(0),
                          weightTotal  |-> Num(0)],
                         a, b)
  IN  [scores       |-> end.scores,
       scoreOverall |-> IF end.weightTotal = Num(0) THEN Num(0)
                        ELSE Div(end.weightedSum, end.weightTotal),
       explanations |-> end.explanations]

-----------------------------------------------------------------------------
(* Inputs *)

MIN_WEIGHT == 1

MAX_WEIGHT == 3

MaxTags == 3

MaxTokens == 5

MaxLensTags == 2

MaxLensTokens == 2

\* the tag lists of at most this many tags, both sides together, are also
\* compared with every variant of theirs
MaxVariedTags == 2

Weights == MIN_WEIGHT..MAX_WEIGHT

\* P holds of some two sequences over S with at most n elements in both
\* together
SomePairUpTo(S, n, P(_, _)) ==
  \E k \in 0..n : \E i \in 0..k :
    \E x \in [1..i -> S] : \E y \in [1..(k - i) -> S] : P(x, y)

Tag(v, w) == [value |-> v, weight |-> w]

TagValues == { <<" ", "M", "u", "s", "i", "c", " ">>, <<"m", "u", "s", "i", "c">>, <<"s", "p", "o", "r", "t", "s">> }

TagItems == [value : TagValues, weight : Weights]

\* the worked example of the similarity tests
ExampleTagsA == << Tag(<<"m", "u", "s", "i", "c">>, 3), Tag(<<"s", "p", "o", "r", "t", "s">>, 2) >>

ExampleTagsB == << Tag(<<"m", "u", "s", "i", "c">>, 1), Tag(<<"t", "r", "a", "v", "e", "l">>, 2) >>

TokenValues == { <<"h", "i", "k">>, <<"l", "o", "v", "e">>, <<"m", "y">> }

LensTagItems == [value : { <<"m", "u", "s", "i", "c">>, <<"S", "p", "o", "r", "t", "s">> }, weight : Weights]

LensTokenValues == { <<"h", "i", "k">>, <<"l", "o", "v", "e">> }

TextSamples ==
  { <<>>, <<"L", "o", "v", "e", "s", " ", "h", "i", "k", "i", "n", "g">>, <<"H", "i", "k", "i", "n", "g", " ", "i", "s", " ", "m", "y", " ", "f", "a", "v", "o", "r", "i", "t", "e", " ", "a", "c", "t", "i", "v", "i", "t", "y">>,
    <<"L", "o", "v", "e", "s", " ", "h", "i", "k", "i", "n", "g", " ", "a", "n", "d", " ", "s", "w", "i", "m", "m", "i", "n", "g", " ", "i", "n", " ", "t", "h", "e", " ", "o", "c", "e", "a", "n">>,
    <<"H", "i", "k", "i", "n", "g", " ", "i", "s", " ", "m", "y", " ", "f", "a", "v", "o", "r", "i", "t", "e", " ", "a", "c", "t", "i", "v", "i", "t", "y", " ", "b", "y", " ", "t", "h", "e", " ", "s", "e", "a">>,
    <<"T", "h", "i", "s", " ", "i", "s", " ", "t", "h", "e">>, <<" ", " ", "R", "u", "n", "s", ",", " ", "m", "a", "r", "a", "t", "h", "o", "n", "s", "\t", "e", "v", "e", "r", "y", " ", "y", "e", "a", "r", "!", " ">>,
    <<"w", "a", "n", "t", "e", "d", " ", "2", " ", "t", "h", "i", "n", "g", "s">>, <<"r", "i", "n", "g", " ", "r", "e", "d", " ", "b", "u", "s">> }

\* what one participant entered in one lens
NoEntries == [tags |-> <<>>, texts |-> <<>>]

ScenarioA ==
  [tags |-> << Tag(<<"f", "e", "m", "a", "l", "e">>, 2) >>, texts |-> << <<"L", "o", "v", "e", "s", " ", "h", "i", "k", "i", "n", "g">> >>]

ScenarioB ==
  [tags  |-> << Tag(<<"m", "a", "l", "e">>, 2) >>,
   texts |-> << <<"H", "i", "k", "i", "n", "g", " ", "i", "s", " ", "m", "y", " ", "f", "a", "v", "o", "r", "i", "t", "e", " ", "a", "c", "t", "i", "v", "i", "t", "y">> >>]

TagsOnly ==
  [tags |-> << Tag(<<"F", "e", "m", "a", "l", "e", " ">>, 3), Tag(<<"f", "e", "m", "a", "l", "e">>, 1) >>, texts |-> <<>>]

TextsOnly == [tags |-> <<>>, texts |-> << <<"L", "o", "v", "e", "s">>, <<"h", "i", "k", "i", "n", "g", "!">> >>]

StopWordsOnly == [tags |-> <<>>, texts |-> << <<"T", "h", "i", "s", " ", "i", "s", " ", "t", "h", "e">> >>]

\* the GIVEN lens of the two identities of the symmetry test
TestA ==
  [tags  |-> << Tag(<<"m", "u", "s", "i", "c">>, 2), Tag(<<"a", "r", "t">>, 1) >>,
   texts |-> << <<"L", "o", "v", "e", "s", " ", "j", "a", "z", "z", " ", "a", "n", "d", " ", "p", "a", "i", "n", "t", "i", "n", "g">> >>]

TestB ==
  [tags  |-> << Tag(<<"m", "u", "s", "i", "c">>, 1), Tag(<<"s", "p", "o", "r", "t", "s">>, 2) >>,
   texts |-> << <<"E", "n", "j", "o", "y", "s", " ", "m", "u", "s", "i", "c", " ", "a", "n", "d", " ", "p", "a", "i", "n", "t", "i", "n", "g">> >>]

\* what the two participants of a comparison entered in one lens
LensCases ==
  { <<NoEntries, NoEntries>>, <<NoEntries, ScenarioA>>,
    <<ScenarioA, ScenarioB>>, <<ScenarioB, ScenarioA>>,
    <<ScenarioA, ScenarioA>>, <<TagsOnly, TagsOnly>>,
    <<TextsOnly, TextsOnly>>, <<StopWordsOnly, StopWordsOnly>>,
    <<TagsOnly, ScenarioA>>, <<TagsOnly, ScenarioB>>,
    <<TextsOnly, ScenarioA>>, <<TextsOnly, ScenarioB>>,
    <<TestA, TestB>>, <<TagsOnly, TestA>> }

\* the Identity of side i (1 = a, 2 = b) when lens L holds case c[L]
MkIdentity(c, i) ==
  [tags  |-> [lens \in Lens |-> c[lens][i].tags],
   texts |-> [lens \in Lens |-> c[lens][i].texts]]

IdentityPairs ==
  {<<MkIdentity(c, 1), MkIdentity(c, 2)>> : c \in [Lens -> LensCases]}

\* the tag lists weightedJaccard and explainLens are called with
TagArgs ==
  \/ SomePairUpTo(TagItems, MaxTags, LAMBDA x, y : args = [a |-> x, b |-> y])
  \/ args = [a |-> ExampleTagsA, b |-> ExampleTagsB]

None == [none |-> TRUE]

-----------------------------------------------------------------------------
(* The calls *)

-----------------------------------------------------------------------------
(* The store (supabase/schema.sql) and the browsers *)

MaxUsers == 2

\* the browsers, one per user
Users == 1..MaxUsers

\* score: number | null
Null == [null |-> TRUE]

\* localStorage.getItem(key) === null, for a key that holds an id
NoId == 0

\* null where a string may stand (a stored scope, an error message)
NoValue == "null"

NoStorage ==
  [participantId |-> NoId, sessionId |-> NoId, selectedScope |-> NoValue]

\* the page is not open in the browser
NotOpen == [open |-> FALSE]

\* s without its i-th element
RemoveAt(s, i) == SubSeq(s, 1, i - 1) \o SubSeq(s, i + 1, Len(s))

\* no expires_at: the session has not been ended
NoTime == 0

\* the join page as mounted: both boxes unticked
JoinForm ==
  [consentGiven |-> FALSE, isVisible |-> FALSE, error |-> NoValue,
   loading |-> FALSE, pending |-> <<>>]

\* no request to the API is being served
NoRequest == [stage |-> "none"]

\* message: null
NoMessage == [none |-> TRUE]

\* no creation is on its way
NoCreate == [stage |-> "none"]

\* the Session Admin page as mounted
AdminForm == [loading |-> FALSE, message |-> NoMessage, create |-> NoCreate]

\* no browser has joined and no page is open
BrowsersIdle ==
  /\ localStorage = [u \in Users |-> NoStorage]
  /\ joinPage = [u \in Users |-> JoinForm]
  /\ mePage = [u \in Users |-> NotOpen]
  /\ mapPage = [u \in Users |-> NotOpen]
  /\ request = NoRequest
  /\ adminPage = AdminForm

\* nothing stored, nobody joined, no page open
AppIdle ==
  /\ sessions = <<>>
  /\ participant = <<>>
  /\ identity_item = <<>>
  /\ uuids = 0
  /\ now = 1
  /\ BrowsersIdle

\* the calls the caller has completed, oldest first
NoHistory == <<>>

Init ==
  /\ pc = "ready"
  /\ ret = None
  /\ history = NoHistory
  /\ AppIdle
  /\ \/ op = "tokenize" /\ \E t \in TextSamples : args = [text |-> t]
     \/ op = "weightedJaccard" /\ TagArgs
     \/ op = "explainLens" /\ TagArgs
     \/ /\ op = "textJaccard"
        /\ SomePairUpTo(TokenValues, MaxTokens,
                        LAMBDA x, y : args = [aTokens |-> x, bTokens |-> y])
     \/ /\ op = "computeLensSimilarity"
        /\ SomePairUpTo(LensTagItems, MaxLensTags, LAMBDA x, y :
             SomePairUpTo(LensTokenValues, MaxLensTokens, LAMBDA s, t :
               args = [a |-> x, aTexts |-> s, b |-> y, bTexts |-> t]))
     \/ /\ op = "computeSimilarity"
        /\ \E p \in IdentityPairs : args = [a |-> p[1], b |-> p[2]]

Return(v) ==
  /\ ret' = v
  /\ pc' = "done"
  /\ UNCHANGED <<op, args, history>>
  /\ UNCHANGED appVars

CallTokenize ==
  /\ pc = "ready" /\ op = "tokenize"
  /\ Return(tokenize(args.text))

CallWeightedJaccard ==
  /\ pc = "ready" /\ op = "weightedJaccard"
  /\ Return(weightedJaccard(args.a, args.b))

CallTextJaccard ==
  /\ pc = "ready" /\ op = "textJaccard"
  /\ Return(textJaccard(args.aTokens, args.bTokens))

CallComputeLensSimilarity ==
  /\ pc = "ready" /\ op = "computeLensSimilarity"
  /\ Return(computeLensSimilarity(args.a, args.aTexts, args.b, args.bTexts))

CallExplainLens ==
  /\ pc = "ready" /\ op = "explainLens"
  /\ Return(explainLens(args.a, args.b))

\* computeSimilarity ordering the caller's tag arrays in place by weight
CallComputeSimilaritySortingInputs ==
  /\ pc = "ready" /\ op = "computeSimilarity"
  /\ ret' = computeSimilarity(args.a, args.b)
  /\ args' = [a |-> [args.a EXCEPT !.tags =
                       [lens \in Lens |->
                          [i \in DOMAIN args.a.tags[lens] |->
                             LET sorted == sortDesc(
                                   [j \in DOMAIN args.a.tags[lens] |->
                                      <<args.a.tags[lens][j].value,
                                        args.a.tags[lens][j].weight>>], <<>>)
                             IN  Tag(sorted[i][1], sorted[i][2])]]],
              b |-> args.b]
  /\ pc' = "done"
  /\ UNCHANGED <<op, history>>
  /\ UNCHANGED appVars

CallComputeSimilarity ==
  /\ pc = "ready" /\ op = "computeSimilarity"
  /\ Return(computeSimilarity(args.a, args.b))

Next ==
  \/ CallTokenize
  \/ CallWeightedJaccard
  \/ CallTextJaccard
  \/ CallComputeLensSimilarity
  \/ CallExplainLens
  \/ CallComputeSimilarity

Spec == Init /\ [][Next]_vars

Done(o) == pc = "done" /\ op = o

-----------------------------------------------------------------------------
(* Vocabulary of the properties *)

Zero == Num(0)

One == Num(1)

\* 0 <= x <= 1
InUnit(x) == IsFinite(x) /\ 0 <= x.num /\ x.num <= x.den

Positive(x) == IsFinite(x) /\ x.num > 0

HasTags(id, lens) == id.tags[lens] # <<>>

HasTexts(id, lens) == id.texts[lens] # <<>>

\* the tokens of a participant's text entries: each entry tokenized on its
\* own, the token sequences joined in entry order
TokensOf(texts) ==
  LET toks == [i \in DOMAIN texts |-> tokenize(texts[i])]
      cat[i \in 0..Len(texts)] == IF i = 0 THEN <<>> ELSE cat[i - 1] \o toks[i]
  IN  cat[Len(texts)]

-----------------------------------------------------------------------------
(* C1 *)

\* C1: computeSimilarity(A,B) and computeSimilarity(B,A) return the same
\* scoreOverall and the same score for each lens; so do the lens combiner
\* and weightedJaccard with their two sides exchanged.
Symmetry ==
  /\ Done("computeSimilarity") =>
       LET rev == computeSimilarity(args.b, args.a)
       IN  /\ ret.scoreOverall = rev.scoreOverall
           /\ \A lens \in Lens : ret.scores[lens] = rev.scores[lens]
  /\ Done("computeLensSimilarity") =>
       ret = computeLensSimilarity(args.b, args.bTexts, args.a, args.aTexts)
  /\ Done("weightedJaccard") => ret = weightedJaccard(args.b, args.a)

\* two different identities, a different non-zero score in every lens, in
\* GIVEN a tag of each side that the other side lacks
SymmetryWitness ==
  /\ Done("computeSimilarity")
  /\ args.a # args.b
  /\ ret.explanations["GIVEN"].overlapTags # <<>>
  /\ ret.explanations["GIVEN"].uniqueToA # <<>>
  /\ ret.explanations["GIVEN"].uniqueToB # <<>>
  /\ \A lens \in Lens : Positive(ret.scores[lens])
  /\ ret.scores["GIVEN"] # ret.scores["CHOSEN"]
  /\ ret.scores["CHOSEN"] # ret.scores["CORE"]
  /\ ret.scores["GIVEN"] # ret.scores["CORE"]

-----------------------------------------------------------------------------
(* C2 *)

\* C2: with tag weights in [1,3], empty lenses and duplicate tag values
\* included, every lens score and scoreOverall lies in [0,1].
Bounds ==
  /\ Done("computeSimilarity") =>
       /\ InUnit(ret.scoreOverall)
       /\ \A lens \in Lens : InUnit(ret.scores[lens])
  /\ Done("computeLensSimilarity") => InUnit(ret)

\* both ends of the interval are reached in one result
BoundsWitness ==
  /\ Done("computeSimilarity")
  /\ ret.scores["GIVEN"] = One
  /\ ret.scores["CHOSEN"] = Zero
  /\ HasTags(args.a, "CHOSEN") /\ HasTags(args.b, "CHOSEN")
  /\ Positive(ret.scoreOverall)

-----------------------------------------------------------------------------
(* C3 *)

\* what a lens scores against itself: the tag share when it has tags plus
\* the text share when its texts yield a token
SelfScore(tags, tokens) ==
  Add(IF tags # <<>> THEN TAG_BLEND ELSE Zero,
      IF tokens # <<>> THEN TEXT_BLEND ELSE Zero)

\* C3 (as amended): comparing an identity with itself gives a lens the score
\* 1.0 when the lens has at least one tag and its texts yield at least one
\* token; 0.7 with tags only, 0.3 with tokens only, 0 with neither.
SelfSimilarity ==
  /\ Done("computeSimilarity") /\ args.a = args.b =>
       \A lens \in Lens :
         /\ ret.scores[lens] =
              SelfScore(args.a.tags[lens], TokensOf(args.a.texts[lens]))
         /\ HasTags(args.a, lens) /\ TokensOf(args.a.texts[lens]) # <<>> =>
              ret.scores[lens] = One
  /\ Done("computeLensSimilarity")
       /\ args.a = args.b /\ args.aTexts = args.bTexts =>
       ret = SelfScore(args.a, args.aTexts)

\* C3 as stated: a lens with at least one tag or at least one text scores
\* 1.0 against itself.
SelfSimilarityAsStated ==
  Done("computeSimilarity") /\ args.a = args.b =>
    \A lens \in Lens :
      HasTags(args.a, lens) \/ HasTexts(args.a, lens) => ret.scores[lens] = One

\* an identity compared with itself: tags and tokens in GIVEN, tags only in
\* CHOSEN, a text of stopwords only in CORE
SelfSimilarityWitness ==
  /\ Done("computeSimilarity") /\ args.a = args.b
  /\ HasTags(args.a, "GIVEN") /\ TokensOf(args.a.texts["GIVEN"]) # <<>>
  /\ ret.scores["GIVEN"] = One
  /\ HasTags(args.a, "CHOSEN") /\ ~HasTexts(args.a, "CHOSEN")
  /\ ret.scores["CHOSEN"] = TAG_BLEND
  /\ HasTexts(args.a, "CORE") /\ ret.scores["CORE"] = Zero

-----------------------------------------------------------------------------
(* C4 *)

\* C4: a lens in which both participants have zero tags and zero texts
\* scores exactly the number 0, and weightedJaccard([],[]) and
\* textJaccard([],[]) each return 0.
EmptyVsEmpty ==
  /\ Done("computeSimilarity") =>
       \A lens \in Lens :
         /\ ~HasTags(args.a, lens) /\ ~HasTexts(args.a, lens)
         /\ ~HasTags(args.b, lens) /\ ~HasTexts(args.b, lens)
         => ret.scores[lens] = Zero
  /\ Done("computeLensSimilarity")
       /\ args.a = <<>> /\ args.b = <<>>
       /\ args.aTexts = <<>> /\ args.bTexts = <<>> => ret = Zero
  /\ Done("weightedJaccard") /\ args.a = <<>> /\ args.b = <<>> => ret = Zero
  /\ Done("textJaccard") /\ args.aTokens = <<>> /\ args.bTokens = <<>> =>
       ret = Zero

\* a comparison in which CORE is empty on both sides and GIVEN is not
EmptyVsEmptyWitness ==
  /\ Done("computeSimilarity")
  /\ ~HasTags(args.a, "CORE") /\ ~HasTexts(args.a, "CORE")
  /\ ~HasTags(args.b, "CORE") /\ ~HasTexts(args.b, "CORE")
  /\ ret.scores["CORE"] = Zero
  /\ Positive(ret.scores["GIVEN"])
  /\ IsFinite(ret.scoreOverall)

-----------------------------------------------------------------------------
(* Key/weight view of a tag list, stated on sets *)

\* value.trim().toLowerCase(), by position
NormalKey(value) ==
  LET inner == {i \in DOMAIN value : value[i] \notin WhiteSpace}
      first == CHOOSE i \in inner : \A j \in inner : i <= j
      last  == CHOOSE i \in inner : \A j \in inner : j <= i
  IN  IF inner = {} THEN <<>>
      ELSE [i \in 1..(last - first + 1) |-> toLowerChar(value[first + i - 1])]

KeysOf(items) == {NormalKey(items[i].value) : i \in DOMAIN items}

\* the maximum weight a key carries in items, 0 when the key is absent
WeightOf(items, key) ==
  LET ws == {items[i].weight : i \in {j \in DOMAIN items :
                                        NormalKey(items[j].value) = key}}
  IN  IF ws = {} THEN 0 ELSE CHOOSE w \in ws : \A v \in ws : v <= w

RECURSIVE SumMinOver(_, _, _)
SumMinOver(U, a, b) ==
  IF U = {} THEN 0
  ELSE LET k == CHOOSE x \in U : TRUE
       IN  Min(WeightOf(a, k), WeightOf(b, k)) + SumMinOver(U \ {k}, a, b)

RECURSIVE SumMaxOver(_, _, _)
SumMaxOver(U, a, b) ==
  IF U = {} THEN 0
  ELSE LET k == CHOOSE x \in U : TRUE
       IN  Max(WeightOf(a, k), WeightOf(b, k)) + SumMaxOver(U \ {k}, a, b)

RECURSIVE SetToSeq(_)
SetToSeq(S) ==
  IF S = {} THEN <<>>
  ELSE LET x == CHOOSE y \in S : TRUE IN <<x>> \o SetToSeq(S \ {x})

Reverse(s) == [i \in DOMAIN s |-> s[Len(s) + 1 - i]]

\* one tag per key, spelled as the key, with the key's maximum weight: the
\* same list for any two tag lists with the same key -> maximum weight map
Canon(items) ==
  LET keys == SetToSeq(KeysOf(items))
  IN  [i \in DOMAIN keys |-> Tag(keys[i], WeightOf(items, keys[i]))]

\* |A \cap B| / |A \cup B|, 0 for two empty sets
SetJaccard(A, B) ==
  IF A \cup B = {} THEN Zero
  ELSE Rat(Cardinality(A \cap B), Cardinality(A \cup B))

-----------------------------------------------------------------------------
(* C5 *)

\* C5: weightedJaccard(a,b) is the sum over the union U of the normalized
\* keys of min(weightA, weightB) divided by the sum over U of
\* max(weightA, weightB), an absent key weighing 0; {music:3, sports:2}
\* against {music:1, travel:2} gives 1/7.
WeightedJaccardFormula ==
  Done("weightedJaccard") =>
    LET U == KeysOf(args.a) \cup KeysOf(args.b)
    IN  /\ U # {} =>
             ret = Rat(SumMinOver(U, args.a, args.b),
                       SumMaxOver(U, args.a, args.b))
        /\ args.a = ExampleTagsA /\ args.b = ExampleTagsB => ret = Rat(1, 7)

\* the worked example has been computed
WeightedJaccardWitness ==
  /\ Done("weightedJaccard")
  /\ args.a = ExampleTagsA /\ args.b = ExampleTagsB
  /\ ret = [num |-> 1, den |-> 7]

-----------------------------------------------------------------------------
(* C6 *)

\* the tag lists got from items by respelling one value in another case or
\* with other surrounding whitespace, or by adding a duplicate of a value
\* with a weight not above the maximum of its key
Variants(items) ==
  {[items EXCEPT ![i].value = v] :
     <<i, v>> \in {q \in (DOMAIN items) \X TagValues :
                     NormalKey(q[2]) = NormalKey(items[q[1]].value)}}
  \cup
  {Append(items, Tag(q[2], q[3])) :
     q \in {r \in (DOMAIN items) \X TagValues \X Weights :
              /\ NormalKey(r[2]) = NormalKey(items[r[1]].value)
              /\ r[3] <= WeightOf(items, NormalKey(r[2]))}}

SameSets(e1, e2) ==
  /\ Range(e1.overlap) = Range(e2.overlap)
  /\ Range(e1.uniqueA) = Range(e2.uniqueA)
  /\ Range(e1.uniqueB) = Range(e2.uniqueB)

Varied == Len(args.a) + Len(args.b) <= MaxVariedTags

\* C6: weightedJaccard and the overlap/unique sets of explainLens depend
\* only on each side's map from value.trim().toLowerCase() to the maximum
\* weight of that key: the results are those on the canonical tag lists of
\* the two maps and those on the reversed lists, and (for the shorter lists)
\* respelling a value in another case or with other surrounding whitespace
\* or adding a duplicate of a value with a weight not above its current
\* maximum leaves them unchanged.
KeyMapOnly ==
  /\ Done("weightedJaccard") =>
       /\ ret = weightedJaccard(Canon(args.a), Canon(args.b))
       /\ ret = weightedJaccard(Reverse(args.a), Reverse(args.b))
       /\ Varied =>
            /\ \A a2 \in Variants(args.a) : ret = weightedJaccard(a2, args.b)
            /\ \A b2 \in Variants(args.b) : ret = weightedJaccard(args.a, b2)
  /\ Done("explainLens") =>
       /\ SameSets(ret, explainLens(Canon(args.a), Canon(args.b)))
       /\ SameSets(ret, explainLens(Reverse(args.a), Reverse(args.b)))
       /\ Varied =>
            /\ \A a2 \in Variants(args.a) :
                 SameSets(ret, explainLens(a2, args.b))
            /\ \A b2 \in Variants(args.b) :
                 SameSets(ret, explainLens(args.a, b2))

\* side a spells one key in two ways, the lower weight last; b shares the
\* key and has another
KeyMapOnlyWitness ==
  /\ Done("weightedJaccard")
  /\ Len(args.a) = 2 /\ Cardinality(KeysOf(args.a)) = 1
  /\ args.a[1].value # args.a[2].value
  /\ args.a[1].weight > args.a[2].weight
  /\ KeysOf(args.a) \cap KeysOf(args.b) # {}
  /\ Positive(ret) /\ ret # One

-----------------------------------------------------------------------------
(* C7 *)

\* the "Loves hiking" / "Hiking is my favorite activity" scenario
IsHikingScenario(a, b, lens) ==
  /\ a.tags[lens] = ScenarioA.tags /\ a.texts[lens] = ScenarioA.texts
  /\ b.tags[lens] = ScenarioB.tags /\ b.texts[lens] = ScenarioB.texts

\* two non-empty tag lists without a common key: the score is 0.3 times the
\* Jaccard of the token sets
TextShareOnly(aTags, aTokens, bTags, bTokens, score) ==
  aTags # <<>> /\ bTags # <<>> /\ KeysOf(aTags) \cap KeysOf(bTags) = {} =>
    LET A == Range(aTokens)
        B == Range(bTokens)
    IN  /\ score = Mul(Rat(3, 10), SetJaccard(A, B))
        /\ A \cap B = {} => score = Zero
        /\ A \cap B # {} => Positive(score)

\* C7: when the two tag sets of a lens are non-empty and share no
\* normalized key, the lens score is 0.3 times the text Jaccard of the token
\* sets: 0 without a shared token, above 0 with one; the hiking scenario
\* shares the token "hik" and scores above 0.
NoTagOverlap ==
  /\ Done("computeSimilarity") =>
       \A lens \in Lens :
         /\ TextShareOnly(args.a.tags[lens], TokensOf(args.a.texts[lens]),
                          args.b.tags[lens], TokensOf(args.b.texts[lens]),
                          ret.scores[lens])
         /\ IsHikingScenario(args.a, args.b, lens) =>
              /\ <<"h", "i", "k">> \in Range(TokensOf(args.a.texts[lens]))
              /\ <<"h", "i", "k">> \in Range(TokensOf(args.b.texts[lens]))
              /\ Positive(ret.scores[lens])
  /\ Done("computeLensSimilarity") =>
       TextShareOnly(args.a, args.aTexts, args.b, args.bTexts, ret)

\* the hiking scenario in GIVEN; in CHOSEN disjoint tags and no shared token
NoTagOverlapWitness ==
  /\ Done("computeSimilarity")
  /\ IsHikingScenario(args.a, args.b, "GIVEN")
  /\ ret.scores["GIVEN"] = [num |-> 3, den |-> 50]
  /\ HasTags(args.a, "CHOSEN") /\ HasTags(args.b, "CHOSEN")
  /\ ret.explanations["CHOSEN"].overlapTags = <<>>
  /\ ret.scores["CHOSEN"] = Zero

-----------------------------------------------------------------------------
(* C8 *)

\* C8: textJaccard is the number of distinct tokens in both sequences
\* divided by the number of distinct tokens in either, 0 for two empty
\* sequences; repeating or reordering tokens does not change it, and it is
\* symmetric.
TextJaccardFormula ==
  Done("textJaccard") =>
    LET A == Range(args.aTokens)
        B == Range(args.bTokens)
    IN  /\ ret = SetJaccard(A, B)
        /\ ret = textJaccard(args.bTokens, args.aTokens)
        /\ ret = textJaccard(SetToSeq(A), SetToSeq(B))
        /\ ret = textJaccard(Reverse(args.aTokens) \o args.aTokens,
                             args.bTokens \o Reverse(args.bTokens))

\* a repeats a shared token and has one b lacks; b has one a lacks
TextJaccardWitness ==
  /\ Done("textJaccard")
  /\ Len(args.aTokens) > Cardinality(Range(args.aTokens))
  /\ args.aTokens[1] = args.aTokens[2]
  /\ args.aTokens[1] \in Range(args.bTokens)
  /\ Range(args.aTokens) \ Range(args.bTokens) # {}
  /\ Range(args.bTokens) \ Range(args.aTokens) # {}
  /\ ret = [num |-> 1, den |-> 3]

-----------------------------------------------------------------------------
(* C9 *)

\* C9: every lens score of computeSimilarity is
\* 0.7 * weightedJaccard(tags of A, tags of B)
\*   + 0.3 * textJaccard(tokens of A, tokens of B),
\* a participant's tokens being tokenize of each text entry of the lens on
\* its own, joined in entry order.
LensScoreFormula ==
  Done("computeSimilarity") =>
    \A lens \in Lens :
      LET blend ==
            Add(Mul(Rat(7, 10),
                    weightedJaccard(args.a.tags[lens], args.b.tags[lens])),
                Mul(Rat(3, 10),
                    textJaccard(TokensOf(args.a.texts[lens]),
                                TokensOf(args.b.texts[lens]))))
      IN  /\ ret.scores[lens] = blend
          /\ ret.explanations[lens].score = blend

\* in GIVEN both terms count; in CHOSEN side a has two text entries whose
\* tokens are those of side b's single entry
LensScoreWitness ==
  /\ Done("computeSimilarity")
  /\ Positive(weightedJaccard(args.a.tags["GIVEN"], args.b.tags["GIVEN"]))
  /\ ret.scores["GIVEN"] = [num |-> 1, den |-> 5]
  /\ Len(args.a.texts["CHOSEN"]) = 2 /\ Len(args.b.texts["CHOSEN"]) = 1
  /\ ret.scores["CHOSEN"] = [num |-> 3, den |-> 10]

-----------------------------------------------------------------------------
(* C10 *)

\* (0.8 * given + 1.0 * chosen + 1.2 * core) / 3.0
OverallOf(given, chosen, core) ==
  Div(Add(Add(Mul(Rat(8, 10), given), Mul(Rat(10, 10), chosen)),
          Mul(Rat(12, 10), core)),
      Num(3))

BothEmpty(a, b, lens) ==
  /\ ~HasTags(a, lens) /\ ~HasTexts(a, lens)
  /\ ~HasTags(b, lens) /\ ~HasTexts(b, lens)

\* C10: scoreOverall is (0.8 * GIVEN + 1.0 * CHOSEN + 1.2 * CORE) / 3.0 for
\* all inputs, the divisor 3.0 also when a lens is empty on both sides,
\* which then contributes 0 at full weight; three equal lens scores s give
\* scoreOverall = s.
OverallFormula ==
  Done("computeSimilarity") =>
    LET given  == ret.scores["GIVEN"]
        chosen == ret.scores["CHOSEN"]
        core   == ret.scores["CORE"]
    IN  /\ ret.scoreOverall = OverallOf(given, chosen, core)
        /\ given = chosen /\ chosen = core => ret.scoreOverall = given
        /\ BothEmpty(args.a, args.b, "CORE") =>
             ret.scoreOverall = OverallOf(given, chosen, Zero)

\* CORE is empty on both sides, GIVEN and CHOSEN both score 1: the overall
\* score is 1.8 / 3.0
OverallWitness ==
  /\ Done("computeSimilarity")
  /\ BothEmpty(args.a, args.b, "CORE")
  /\ ret.scores["GIVEN"] = One /\ ret.scores["CHOSEN"] = One
  /\ ret.scoreOverall = [num |-> 3, den |-> 5]

-----------------------------------------------------------------------------
(* C11 *)

NoRepeat(s) == \A i, j \in DOMAIN s : s[i] = s[j] => i = j

\* the three lists split the normalized keys of a and b by side
SplitsKeys(overlap, uniqueA, uniqueB, a, b) ==
  /\ NoRepeat(overlap) /\ NoRepeat(uniqueA) /\ NoRepeat(uniqueB)
  /\ Range(overlap) \cap Range(uniqueA) = {}
  /\ Range(overlap) \cap Range(uniqueB) = {}
  /\ Range(uniqueA) \cap Range(uniqueB) = {}
  /\ Range(overlap) \cup Range(uniqueA) \cup Range(uniqueB)
       = KeysOf(a) \cup KeysOf(b)
  /\ Range(overlap) = KeysOf(a) \cap KeysOf(b)
  /\ Range(uniqueA) = KeysOf(a) \ KeysOf(b)
  /\ Range(uniqueB) = KeysOf(b) \ KeysOf(a)

\* C11: in every lens explanation overlapTags, uniqueToA and uniqueToB are
\* pairwise disjoint, hold no entry twice, and together are exactly the
\* trimmed, lowercased tag keys of A and B: overlapTags the keys of both
\* sides, uniqueToA the keys only A has, uniqueToB the keys only B has.
ExplanationSplitsKeys ==
  /\ Done("explainLens") =>
       SplitsKeys(ret.overlap, ret.uniqueA, ret.uniqueB, args.a, args.b)
  /\ Done("computeSimilarity") =>
       \A lens \in Lens :
         LET e == ret.explanations[lens]
         IN  SplitsKeys(e.overlapTags, e.uniqueToA, e.uniqueToB,
                        args.a.tags[lens], args.b.tags[lens])

\* a lens where one side spells a key twice and each of the three lists
\* holds a key
ExplanationSplitsKeysWitness ==
  /\ Done("computeSimilarity")
  /\ \E lens \in Lens :
       LET e == ret.explanations[lens]
       IN  /\ e.overlapTags # <<>> /\ e.uniqueToA # <<>> /\ e.uniqueToB # <<>>
  /\ \E lens \in Lens :
       /\ Len(args.a.tags[lens]) > Cardinality(KeysOf(args.a.tags[lens]))
       /\ ret.explanations[lens].overlapTags # <<>>

-----------------------------------------------------------------------------
(* Calls of explainLens on tag lists of up to four distinct keys *)

MaxTopTags == 4

TopTagValues == { <<"a">>, <<"B", " ">>, <<"c">>, <<"d">> }

TopTagItems == [value : TopTagValues, weight : {MIN_WEIGHT, MAX_WEIGHT}]

ExplainInit ==
  /\ pc = "ready"
  /\ ret = None
  /\ history = NoHistory
  /\ AppIdle
  /\ op = "explainLens"
  /\ \/ SomePairUpTo(TopTagItems, MaxTopTags,
                     LAMBDA x, y : args = [a |-> x, b |-> y])
     \/ args = [a |-> ExampleTagsA, b |-> ExampleTagsB]

ExplainNext == CallExplainLens

ExplainSpec == ExplainInit /\ [][ExplainNext]_vars

-----------------------------------------------------------------------------
(* C12 *)

\* the position of the first item of items spelling key
FirstAt(items, key) ==
  CHOOSE i \in DOMAIN items :
    /\ NormalKey(items[i].value) = key
    /\ \A j \in 1..(i - 1) : NormalKey(items[j].value) # key

\* the place of key in the order of discovery: A's keys in the order of
\* their first occurrence, then the keys only B has in the order of theirs
DiscoveryRank(a, b, key) ==
  IF key \in KeysOf(a) THEN FirstAt(a, key) ELSE Len(a) + FirstAt(b, key)

MaxWeightOf(a, b, key) == Max(WeightOf(a, key), WeightOf(b, key))

\* C12: topWeights holds min(3, number of distinct keys of the union)
\* distinct keys in order of non-increasing max(weightA, weightB); no key
\* left out outweighs a key included; keys of equal weight stand in the
\* order of their discovery (A's keys by first occurrence, then B's keys
\* that A lacks), and a key left out that weighs as much as one included
\* was discovered after it.
TopWeightsOrder ==
  Done("explainLens") =>
    LET U    == KeysOf(args.a) \cup KeysOf(args.b)
        top  == ret.topWeights
        w    == [k \in U |-> MaxWeightOf(args.a, args.b, k)]
        rank == [k \in U |-> DiscoveryRank(args.a, args.b, k)]
    IN  /\ Len(top) = Min(TOP_WEIGHTS, Cardinality(U))
        /\ NoRepeat(top)
        /\ Range(top) \subseteq U
        /\ \A i, j \in DOMAIN top :
             i < j =>
               /\ w[top[i]] >= w[top[j]]
               /\ w[top[i]] = w[top[j]] => rank[top[i]] < rank[top[j]]
        /\ \A k \in U \ Range(top) : \A t \in Range(top) :
             /\ w[k] <= w[t]
             /\ w[k] = w[t] => rank[t] < rank[k]

\* four keys, two of them of B alone; the heaviest is not the first
\* discovered, two listed keys tie and a key as heavy as the last listed
\* one is left out
TopWeightsOrderWitness ==
  /\ Done("explainLens")
  /\ Cardinality(KeysOf(args.a) \cup KeysOf(args.b)) = 4
  /\ Cardinality(KeysOf(args.b) \ KeysOf(args.a)) = 2
  /\ Len(ret.topWeights) = 3
  /\ ret.topWeights[1] # NormalKey(args.a[1].value)
  /\ MaxWeightOf(args.a, args.b, ret.topWeights[2])
       = MaxWeightOf(args.a, args.b, ret.topWeights[3])
  /\ \E k \in (KeysOf(args.a) \cup KeysOf(args.b)) \ Range(ret.topWeights) :
       MaxWeightOf(args.a, args.b, k)
         = MaxWeightOf(args.a, args.b, ret.topWeights[3])

-----------------------------------------------------------------------------
(* Calls of tokenize on texts put together from word parts and separators *)

MaxPieces == 4

Pieces ==
  { <<"H", "i", "k">>, <<"b", "e">>, <<"T", "h", "e">>, <<"i", "n", "g">>, <<"e", "d">>, <<"s">>, <<"2">>, <<" ">>, <<",", "\t">> }

TokenizeSamples == { <<"T", "h", "e", " ", "H", "i", "k", "i", "n", "g", "s", ",", " ", "u", "s", "e", "d", " ", "2", " ", "r", "i", "n", "g", "s">>, <<"B", "e", "i", "n", "g", " ", "t", "i", "r", "e", "d", " ", "o", "f", " ", "r", "e", "d", " ", "s", "t", "o", "c", "k", "i", "n", "g", "s">> }

TokenizeInit ==
  /\ pc = "ready"
  /\ ret = None
  /\ history = NoHistory
  /\ AppIdle
  /\ op = "tokenize"
  /\ \/ \E n \in 0..MaxPieces : \E ps \in [1..n -> Pieces] :
          args = [text |-> joinAll(ps)]
     \/ \E t \in TextSamples \cup TokenizeSamples : args = [text |-> t]

TokenizeNext == CallTokenize

TokenizeSpec == TokenizeInit /\ [][TokenizeNext]_vars

-----------------------------------------------------------------------------
(* C13 *)

\* the maximal runs of [a-z0-9] characters of s, as <<first, last>>
RunsOf(s) ==
  {r \in (DOMAIN s) \X (DOMAIN s) :
     /\ r[1] <= r[2]
     /\ \A i \in r[1]..r[2] : s[i] \in AlnumSet
     /\ r[1] = 1 \/ s[r[1] - 1] \notin AlnumSet
     /\ r[2] = Len(s) \/ s[r[2] + 1] \notin AlnumSet}

\* the runs of R from left to right
RECURSIVE LeftToRight(_)
LeftToRight(R) ==
  IF R = {} THEN <<>>
  ELSE LET r == CHOOSE x \in R : \A y \in R : x[1] <= y[1]
       IN  <<r>> \o LeftToRight(R \ {r})

HasSuffix(t, suffix) ==
  /\ Len(suffix) <= Len(t)
  /\ \A i \in DOMAIN suffix : t[Len(t) - Len(suffix) + i] = suffix[i]

WithoutLast(t, n) == [i \in 1..(Len(t) - n) |-> t[i]]

\* the first applicable suffix rule
FirstRule(t) ==
  CASE HasSuffix(t, <<"i", "n", "g">>) /\ Len(t) > 4 -> WithoutLast(t, 3)
    [] ~(HasSuffix(t, <<"i", "n", "g">>) /\ Len(t) > 4)
         /\ HasSuffix(t, <<"e", "d">>) /\ Len(t) > 3 -> WithoutLast(t, 2)
    [] ~(HasSuffix(t, <<"i", "n", "g">>) /\ Len(t) > 4)
         /\ ~(HasSuffix(t, <<"e", "d">>) /\ Len(t) > 3)
         /\ HasSuffix(t, <<"s">>) /\ Len(t) > 3 -> WithoutLast(t, 1)
    [] OTHER -> t

\* the words of text: its maximal [a-z0-9] runs once lowercased, left to
\* right, those that are stopwords left out
WordsOf(text) ==
  LET low  == [i \in DOMAIN text |-> toLowerChar(text[i])]
      runs == LeftToRight({r \in RunsOf(low) :
                             SubSeq(low, r[1], r[2]) \notin STOP_WORDS})
  IN  [k \in DOMAIN runs |-> SubSeq(low, runs[k][1], runs[k][2])]

\* C13: tokenize(text) returns, in input order, one token per maximal run
\* of [a-z0-9] characters of the lowercased text that is not a stopword,
\* each changed by the first applicable rule only (strip 'ing' if longer
\* than 4, else 'ed' if longer than 3, else 's' if longer than 3, else
\* unchanged); no returned token is empty.
TokenizeFormula ==
  Done("tokenize") =>
    LET words == WordsOf(args.text)
    IN  /\ ret = [k \in DOMAIN words |-> FirstRule(words[k])]
        /\ \A k \in DOMAIN ret : ret[k] # <<>>

\* a text with a stopword, a word ending in 'ings' that loses its 's' only,
\* and a word that keeps its form
TokenizeWitness ==
  /\ Done("tokenize")
  /\ \E k \in DOMAIN WordsOf(args.text) :
       /\ HasSuffix(WordsOf(args.text)[k], <<"i", "n", "g", "s">>)
       /\ HasSuffix(ret[k], <<"i", "n", "g">>)
  /\ \E k \in DOMAIN ret : ret[k] = WordsOf(args.text)[k]
  /\ Cardinality(RunsOf(toLowerCase(args.text))) > Len(ret)

-----------------------------------------------------------------------------
(* C14 *)

\* tokens.join(' ')
RECURSIVE JoinBySpaces(_)
JoinBySpaces(tokens) ==
  IF tokens = <<>> THEN <<>>
  ELSE IF Len(tokens) = 1 THEN Head(tokens)
  ELSE Head(tokens) \o <<" ">> \o JoinBySpaces(Tail(tokens))

MatchesSuffixRule(t) ==
  \/ HasSuffix(t, <<"i", "n", "g">>) /\ Len(t) > 4
  \/ HasSuffix(t, <<"e", "d">>) /\ Len(t) > 3
  \/ HasSuffix(t, <<"s">>) /\ Len(t) > 3

\* the number of stopwords among the first n tokens
StopWordsAmong(tokens, n) ==
  Cardinality({j \in 1..n : tokens[j] \in STOP_WORDS})

\* C14 as stated: tokenizing the tokens of tokenize(text), joined by spaces,
\* returns at the same position every token that matches no suffix rule.
SecondPassKeepsAsStated ==
  Done("tokenize") =>
    LET again == tokenize(JoinBySpaces(ret))
    IN  \A k \in DOMAIN ret :
          ~MatchesSuffixRule(ret[k]) =>
            k \in DOMAIN again /\ again[k] = ret[k]

\* C14: tokenizing the tokens of tokenize(text), joined by spaces, drops
\* exactly the tokens that stemming turned into stopwords and returns every
\* other token that matches no suffix rule unchanged, at its position less
\* the number of such stopwords before it (so at the same position when the
\* first output holds no stopword).
SecondPassKeeps ==
  Done("tokenize") =>
    LET again == tokenize(JoinBySpaces(ret))
    IN  /\ Len(again) = Len(ret) - StopWordsAmong(ret, Len(ret))
        /\ \A k \in DOMAIN ret :
             ~MatchesSuffixRule(ret[k]) /\ ret[k] \notin STOP_WORDS =>
               LET p == k - StopWordsAmong(ret, k - 1)
               IN  p \in DOMAIN again /\ again[p] = ret[k]
        /\ StopWordsAmong(ret, Len(ret)) = 0 =>
             \A k \in DOMAIN ret :
               ~MatchesSuffixRule(ret[k]) => again[k] = ret[k]

\* the first output holds a stopword made by stemming, a later token that
\* matches no rule and a token that still matches one
SecondPassKeepsWitness ==
  /\ Done("tokenize")
  /\ \E j, k \in DOMAIN ret :
       /\ j < k
       /\ ret[j] \in STOP_WORDS
       /\ ~MatchesSuffixRule(ret[k]) /\ ret[k] \notin STOP_WORDS
       /\ tokenize(JoinBySpaces(ret))[k - StopWordsAmong(ret, k - 1)] = ret[k]
  /\ \E k \in DOMAIN ret : MatchesSuffixRule(ret[k])

-----------------------------------------------------------------------------
(* A caller making one call of computeSimilarity after another *)

MaxCalls == 3

\* the Identity values the caller holds
CallerIdentities ==
  { MkIdentity([lens \in Lens |-> <<TestA, TestB>>], 1),
    MkIdentity([lens \in Lens |-> <<TestA, TestB>>], 2),
    MkIdentity([lens \in Lens |->
                  IF lens = "CORE" THEN <<TagsOnly, TagsOnly>>
                  ELSE <<NoEntries, NoEntries>>], 1) }

CallsInit ==
  /\ pc = "ready"
  /\ ret = None
  /\ history = NoHistory
  /\ AppIdle
  /\ op = "computeSimilarity"
  /\ \E x, y \in CallerIdentities : args = [a |-> x, b |-> y]

\* the caller takes the result and calls again, with the Identity values it
\* passed before or with others
NextCall ==
  /\ pc = "done"
  /\ Len(history) < MaxCalls - 1
  /\ history' = Append(history, [a |-> args.a, b |-> args.b, result |-> ret])
  /\ \E x, y \in CallerIdentities : args' = [a |-> x, b |-> y]
  /\ ret' = None
  /\ pc' = "ready"
  /\ UNCHANGED op
  /\ UNCHANGED appVars

CallsNext == CallComputeSimilarity \/ NextCall

CallsSpec == CallsInit /\ [][CallsNext]_vars

-----------------------------------------------------------------------------
(* C15 *)

\* the result of an earlier call with the same inputs is the result now
SameAsBefore ==
  Done("computeSimilarity") =>
    \A i \in DOMAIN history :
      history[i].a = args.a /\ history[i].b = args.b
        => history[i].result = ret

-----------------------------------------------------------------------------
(* People Map: ranking of the matches (app/map/page.tsx) *)

\* x < y, for finite x and y
Less(x, y) == x.num * y.den < y.num * x.den

\* x - y, for finite x >= y
Sub(x, y) == Rat(x.num * y.den - y.num * x.den, x.den * y.den)

\* [...valid].sort((a, b) => b.score - a.score): stable
RECURSIVE insertByScoreDesc(_, _)
insertByScoreDesc(sorted, m) ==
  IF sorted = <<>> THEN <<m>>
  ELSE IF Less(Head(sorted).score, m.score)
    THEN <<m>> \o sorted
    ELSE <<Head(sorted)>> \o insertByScoreDesc(Tail(sorted), m)

RECURSIVE sortByScoreDesc(_, _)
sortByScoreDesc(list, acc) ==
  IF list = <<>> THEN acc
  ELSE sortByScoreDesc(Tail(list), insertByScoreDesc(acc, Head(list)))

\* [...valid].sort((a, b) => a.score - b.score): stable
RECURSIVE insertByScoreAsc(_, _)
insertByScoreAsc(sorted, m) ==
  IF sorted = <<>> THEN <<m>>
  ELSE IF Less(m.score, Head(sorted).score)
    THEN <<m>> \o sorted
    ELSE <<Head(sorted)>> \o insertByScoreAsc(Tail(sorted), m)

RECURSIVE sortByScoreAsc(_, _)
sortByScoreAsc(list, acc) ==
  IF list = <<>> THEN acc
  ELSE sortByScoreAsc(Tail(list), insertByScoreAsc(acc, Head(list)))

HasScore(m) == m.score # Null

TOP_MATCHES == 3

\* the most different list taken from the end of the descending order
updateMatchesFromTail(list) ==
  LET valid      == SelectSeq(list, HasScore)
      sortedDesc == sortByScoreDesc(valid, <<>>)
  IN  [topSimilar   |-> sliceFront(sortedDesc, TOP_MATCHES),
       topDifferent |-> SubSeq(sortedDesc,
                               Max(1, Len(sortedDesc) - TOP_MATCHES + 1),
                               Len(sortedDesc))]

\* the two lists updateMatches sets
updateMatches(list) ==
  LET valid      == SelectSeq(list, HasScore)
      sortedDesc == sortByScoreDesc(valid, <<>>)
      sortedAsc  == sortByScoreAsc(valid, <<>>)
  IN  [topSimilar   |-> sliceFront(sortedDesc, TOP_MATCHES),
       topDifferent |-> sliceFront(sortedAsc, TOP_MATCHES)]

\* Math.round(x * 100), for finite x
roundPercent(x) == (200 * x.num + x.den) \div (2 * x.den)

\* {Math.round((score ?? 0) * 100)}%
shownSimilarity(m) == roundPercent(IF m.score = Null THEN Num(0) ELSE m.score)

\* the similarity shown where the dissimilarity belongs
shownAsSimilar(m) == roundPercent(IF m.score = Null THEN Num(0) ELSE m.score)

\* {Math.round((1 - (score ?? 0)) * 100)}% different
shownDifference(m) ==
  roundPercent(Sub(Num(1), IF m.score = Null THEN Num(0) ELSE m.score))

\* the two sections as rendered: name and percentage of each row
renderMatches(lists) ==
  [topSimilar   |-> [i \in DOMAIN lists.topSimilar |->
                       [name    |-> lists.topSimilar[i].participant.display_name,
                        percent |-> shownSimilarity(lists.topSimilar[i])]],
   topDifferent |-> [i \in DOMAIN lists.topDifferent |->
                       [name    |-> lists.topDifferent[i].participant.display_name,
                        percent |-> shownDifference(lists.topDifferent[i])]]]

MaxMatches == 5

DisplayNames == << <<"A", "n", "n">>, <<"B", "o", "b">>, <<"C", "y">>, <<"D", "i">>, <<"E", "d">>, <<"F", "l", "o">> >>

ParticipantInfo(i) == [id |-> i, display_name |-> DisplayNames[i]]

MatchScores == {Null, Num(0), Rat(1, 8), Rat(1, 3), Rat(1, 2), Num(1)}

MatchesInit ==
  /\ pc = "ready"
  /\ ret = None
  /\ history = NoHistory
  /\ AppIdle
  /\ op = "updateMatches"
  /\ \E n \in 0..MaxMatches : \E scores \in [1..n -> MatchScores] :
       args = [list |-> [i \in 1..n |->
                           [participant |-> ParticipantInfo(i),
                            score       |-> scores[i]]]]

\* updateMatches(matchList) and the render of the lists it set
CallUpdateMatches ==
  /\ pc = "ready" /\ op = "updateMatches"
  /\ LET lists == updateMatches(args.list)
     IN  Return([topSimilar   |-> lists.topSimilar,
                 topDifferent |-> lists.topDifferent,
                 shown        |-> renderMatches(lists)])

MatchesNext == CallUpdateMatches

MatchesSpec == MatchesInit /\ [][MatchesNext]_vars

-----------------------------------------------------------------------------
(* C17 *)

\* the matches of list with a score
Available(list) == {i \in DOMAIN list : list[i].score # Null}

\* top is n matches of list, one entry each
TakenFrom(top, list, n) ==
  /\ Len(top) = n
  /\ \A k \in DOMAIN top : \E i \in Available(list) : top[k] = list[i]
  /\ \A j, k \in DOMAIN top :
       top[j].participant.id = top[k].participant.id => j = k

Listed(top) == {top[k].participant.id : k \in DOMAIN top}

\* percent is x in hundredths, to the nearest whole
NearestPercent(percent, x) ==
  /\ 2 * (percent * x.den - 100 * x.num) <= x.den
  /\ 2 * (100 * x.num - percent * x.den) <= x.den

\* C17: Top 3 Similar is the (at most 3) matches with the highest available
\* scores in non-increasing order, Top 3 Different the (at most 3) with the
\* lowest available scores in non-decreasing order, and the dissimilarity
\* shown for a match is 1 minus its score (as a whole percentage).
TopMatches ==
  Done("updateMatches") =>
    LET list == args.list
        n    == Min(TOP_MATCHES, Cardinality(Available(list)))
    IN  /\ TakenFrom(ret.topSimilar, list, n)
        /\ TakenFrom(ret.topDifferent, list, n)
        /\ \A j, k \in DOMAIN ret.topSimilar :
             j < k => ~Less(ret.topSimilar[j].score, ret.topSimilar[k].score)
        /\ \A j, k \in DOMAIN ret.topDifferent :
             j < k => ~Less(ret.topDifferent[k].score, ret.topDifferent[j].score)
        /\ \A i \in Available(list) : \A k \in DOMAIN ret.topSimilar :
             list[i].participant.id \notin Listed(ret.topSimilar)
               => ~Less(ret.topSimilar[k].score, list[i].score)
        /\ \A i \in Available(list) : \A k \in DOMAIN ret.topDifferent :
             list[i].participant.id \notin Listed(ret.topDifferent)
               => ~Less(list[i].score, ret.topDifferent[k].score)
        /\ \A k \in DOMAIN ret.topDifferent :
             /\ ret.shown.topDifferent[k].name
                  = ret.topDifferent[k].participant.display_name
             /\ NearestPercent(ret.shown.topDifferent[k].percent,
                               Sub(One, ret.topDifferent[k].score))

\* five matches, one without a score; the two lists differ, two listed
\* scores tie, and a match shown 13% similar elsewhere is shown 88% different
TopMatchesWitness ==
  /\ Done("updateMatches")
  /\ Len(args.list) = 5
  /\ Cardinality(Available(args.list)) = 4
  /\ Listed(ret.topSimilar) # Listed(ret.topDifferent)
  /\ ret.topSimilar[2].score = ret.topSimilar[3].score
  /\ ret.topDifferent[1].score = Rat(1, 8)
  /\ ret.shown.topDifferent[1].percent = 88

-----------------------------------------------------------------------------
(* The People Map (app/map/page.tsx) *)

Scopes == {"overall", "GIVEN", "CHOSEN", "CORE"}

\* .select('id, display_name')
InfoOf(rows) ==
  [k \in DOMAIN rows |->
     [id |-> rows[k].id, display_name |-> rows[k].display_name]]

\* the participant query without its visibility filter
participantsOfSession(sessionId) ==
  InfoOf(SelectSeq(participant, LAMBDA r : r.session_id = sessionId))

\* from('participant').eq('session_id', sessionId).eq('is_visible', true)
visibleParticipants(sessionId) ==
  InfoOf(SelectSeq(participant,
                   LAMBDA r : r.session_id = sessionId /\ r.is_visible))

\* participantRows.map((p) => p.id), and participantId when it is not there
idsOf(participantRows, participantId) ==
  {participantRows[k].id : k \in DOMAIN participantRows} \cup {participantId}

\* from('identity_item').select('*').in('participant_id', ids)
itemsOf(ids) == SelectSeq(identity_item, LAMBDA r : r.participant_id \in ids)

\* identities[id] once every item has been pushed
identityOf(items, id) ==
  [tags  |-> [lens \in Lens |->
                LET rows == SelectSeq(items, LAMBDA r :
                              /\ r.participant_id = id
                              /\ r.lens = lens
                              /\ r.type = "tag")
                IN  [k \in DOMAIN rows |-> Tag(rows[k].value, rows[k].weight)]],
   texts |-> [lens \in Lens |->
                LET rows == SelectSeq(items, LAMBDA r :
                              /\ r.participant_id = id
                              /\ r.lens = lens
                              /\ r.type # "tag")
                IN  [k \in DOMAIN rows |-> rows[k].value]]]

\* tags[lens].length > 0 || texts[lens].length > 0
hasItems(identity, lens) ==
  Len(identity.tags[lens]) > 0 \/ Len(identity.texts[lens]) > 0

\* a lens has data only when the requester has items in it
lensScoresMineOnly(scores, myIdentity, other) ==
  [lens \in Lens |->
     IF hasItems(myIdentity, lens) THEN scores[lens] ELSE Null]

lensScores(scores, myIdentity, other) ==
  [lens \in Lens |->
     IF hasItems(myIdentity, lens) \/ hasItems(other, lens)
       THEN scores[lens]
       ELSE Null]

\* { overall: scoreOverall, ...lensScores }
spread(scoreOverall, ls) ==
  [overall |-> scoreOverall,
   GIVEN   |-> ls["GIVEN"],
   CHOSEN  |-> ls["CHOSEN"],
   CORE    |-> ls["CORE"]]

\* simMap[p.id], from the one call of computeSimilarity(myIdentity, other)
simEntry(myIdentity, other) ==
  CHOOSE entry \in
    { spread(sim.scoreOverall, lensScores(sim.scores, myIdentity, other)) :
        sim \in {computeSimilarity(myIdentity, other)} } : TRUE

\* the page as mounted when the scope always starts as 'overall'
mountedOverall(storage) ==
  LET joined == storage.participantId # NoId /\ storage.sessionId # NoId
  IN  [open          |-> TRUE,
       participantId |-> storage.participantId,
       sessionId     |-> storage.sessionId,
       participants  |-> <<>>,
       similarities  |-> <<>>,
       topSimilar    |-> <<>>,
       topDifferent  |-> <<>>,
       scope         |-> "overall",
       loading       |-> joined,
       error         |-> NoValue,
       hasMyItems    |-> [lens \in Lens |-> FALSE],
       loads         |-> IF joined
                           THEN << [scope           |-> "overall",
                                    stage           |-> "participants",
                                    participantRows |-> <<>>] >>
                           ELSE <<>>]

\* the page as mounted: the scope restored from localStorage, and the load
\* the effect starts once participantId and sessionId are known
mounted(storage) ==
  LET scope  == IF storage.selectedScope \in Scopes
                  THEN storage.selectedScope ELSE "overall"
      joined == storage.participantId # NoId /\ storage.sessionId # NoId
  IN  [open          |-> TRUE,
       participantId |-> storage.participantId,
       sessionId     |-> storage.sessionId,
       participants  |-> <<>>,
       similarities  |-> <<>>,
       topSimilar    |-> <<>>,
       topDifferent  |-> <<>>,
       scope         |-> scope,
       loading       |-> joined,
       error         |-> NoValue,
       hasMyItems    |-> [lens \in Lens |-> FALSE],
       loads         |-> IF joined
                           THEN << [scope           |-> scope,
                                    stage           |-> "participants",
                                    participantRows |-> <<>>] >>
                           ELSE <<>>]

\* the user opens /map
OpenMap(u) ==
  /\ ~mapPage[u].open
  /\ mapPage' = [mapPage EXCEPT ![u] = mounted(localStorage[u])]
  /\ UNCHANGED <<storeVars, localStorage, joinPage, mePage, request, adminPage>>
  /\ UNCHANGED engineVars

\* setError(...); setLoading(false); return
failed(page, i, message) ==
  [page EXCEPT !.error = message, !.loading = FALSE,
               !.loads = RemoveAt(page.loads, i)]

\* a load's first query answers
LoadParticipants(u) ==
  /\ mapPage[u].open
  /\ \E i \in DOMAIN mapPage[u].loads : \E ok \in BOOLEAN :
       LET page == mapPage[u]
           rows == visibleParticipants(page.sessionId)
       IN  /\ page.loads[i].stage = "participants"
           /\ mapPage' = [mapPage EXCEPT ![u] =
                IF ok
                  THEN [page EXCEPT
                          !.participants = rows,
                          !.loads[i] = [scope           |-> page.loads[i].scope,
                                        stage           |-> "items",
                                        participantRows |-> rows]]
                  ELSE failed(page, i, "Failed to fetch participants")]
  /\ UNCHANGED <<storeVars, localStorage, joinPage, mePage, request, adminPage>>
  /\ UNCHANGED engineVars

\* matchList: each other participant with its score for the load's scope
matchListOf(others, simMap, scope) ==
  [k \in DOMAIN others |->
     [participant |-> others[k], score |-> simMap[others[k].id][scope]]]

\* setHasMyItems, setSimilarities, updateMatches(matchList), setLoading(false)
setLoaded(page, i, myHas, simMap, matchList) ==
  [page EXCEPT
     !.hasMyItems   = myHas,
     !.similarities = simMap,
     !.topSimilar   = updateMatches(matchList).topSimilar,
     !.topDifferent = updateMatches(matchList).topDifferent,
     !.loading      = FALSE,
     !.loads        = RemoveAt(page.loads, i)]

\* the comparisons of a load: simMap is built once, from one comparison with
\* each listed participant other than the requester, and then ranked
compared(page, i, items, others) ==
  CHOOSE next \in
    { setLoaded(page, i,
                [lens \in Lens |->
                   hasItems(identityOf(items, page.participantId), lens)],
                simMap,
                matchListOf(others, simMap, page.loads[i].scope)) :
        simMap \in
          { [id \in {others[k].id : k \in DOMAIN others} |->
               simEntry(identityOf(items, page.participantId),
                        identityOf(items, id))] } } : TRUE

\* what a load sets once its items have arrived
loaded(page, i, items) ==
  compared(page, i, items,
           SelectSeq(page.loads[i].participantRows,
                     LAMBDA p : p.id # page.participantId))

\* a load's second query answers
LoadItems(u) ==
  /\ mapPage[u].open
  /\ \E i \in DOMAIN mapPage[u].loads : \E ok \in BOOLEAN :
       LET page == mapPage[u]
           ids  == idsOf(page.loads[i].participantRows, page.participantId)
       IN  /\ page.loads[i].stage = "items"
           /\ mapPage' = [mapPage EXCEPT ![u] =
                IF ok
                  THEN loaded(page, i, itemsOf(ids))
                  ELSE failed(page, i, "Failed to fetch identity items")]
  /\ UNCHANGED <<storeVars, localStorage, joinPage, mePage, request, adminPage>>
  /\ UNCHANGED engineVars

MaxOthers == 3

\* the user whose People Map is followed
Requester == 1

\* what a participant entered on /me: nothing, one tag, or a tag and a text
Profiles ==
  [none  |-> <<>>,
   given |-> << [lens |-> "GIVEN", type |-> "tag",
                 value |-> <<"a", "r", "t">>, weight |-> 2] >>,
   core  |-> << [lens |-> "GIVEN", type |-> "tag",
                 value |-> <<"A", "r", "t", " ">>, weight |-> 1],
                [lens |-> "CORE", type |-> "text",
                 value |-> <<"L", "o", "v", "e", "s", " ", "h", "i", "k", "i", "n", "g">>, weight |-> 1] >>]

\* the other participants in the store: session, visibility, entries
OtherKinds ==
  { [session_id |-> 1, is_visible |-> TRUE,  profile |-> "none"],
    [session_id |-> 1, is_visible |-> TRUE,  profile |-> "given"],
    [session_id |-> 1, is_visible |-> TRUE,  profile |-> "core"],
    [session_id |-> 1, is_visible |-> FALSE, profile |-> "given"],
    [session_id |-> 2, is_visible |-> TRUE,  profile |-> "given"] }

StoredScopes == Scopes \cup {NoValue, "other"}

participantRow(id, kind) ==
  [id            |-> id,
   session_id    |-> kind.session_id,
   display_name  |-> DisplayNames[id],
   is_visible    |-> kind.is_visible,
   consent_given |-> TRUE]

\* the identity_item rows of the participants 1..n, in the order entered
RECURSIVE itemRows(_, _)
itemRows(kinds, n) ==
  IF n = 0 THEN <<>>
  ELSE LET before  == itemRows(kinds, n - 1)
           entered == Profiles[kinds[n].profile]
       IN  before \o [k \in DOMAIN entered |->
                        [id             |-> Len(before) + k,
                         participant_id |-> n,
                         lens           |-> entered[k].lens,
                         type           |-> entered[k].type,
                         value          |-> entered[k].value,
                         weight         |-> entered[k].weight]]

\* the sessions the admin has created
CreatedSessions ==
  << [id |-> 1, code |-> <<"A", "B", "1", "2", "C", "D">>, expires_at |-> NoTime],
     [id |-> 2, code |-> <<"X", "Y", "3", "4", "Z", "W", "9">>, expires_at |-> NoTime] >>

\* the similarity engine is not being called
EngineIdle ==
  /\ pc = "done" /\ op = "none" /\ args = None /\ ret = None
  /\ history = NoHistory

\* the requester has joined session 1 and others have joined and entered
\* their items; no page is open yet
MapInit ==
  /\ EngineIdle
  /\ sessions = CreatedSessions
  /\ now = 1
  /\ joinPage = [u \in Users |-> JoinForm]
  /\ mePage = [u \in Users |-> NotOpen]
  /\ request = NoRequest
  /\ adminPage = AdminForm
  /\ \E n \in 0..MaxOthers : \E others \in [1..n -> OtherKinds] :
     \E visible \in BOOLEAN : \E mine \in {"none", "given"} :
       LET kinds == << [session_id |-> 1, is_visible |-> visible,
                        profile |-> mine] >> \o others
       IN  /\ participant = [id \in 1..(n + 1) |-> participantRow(id, kinds[id])]
           /\ identity_item = itemRows(kinds, n + 1)
           /\ uuids = n + 1 + Len(identity_item)
  /\ \E stored \in StoredScopes :
       localStorage = [u \in Users |->
                         IF u = Requester
                           THEN [participantId |-> 1, sessionId |-> 1,
                                 selectedScope |-> stored]
                           ELSE NoStorage]
  /\ mapPage = [u \in Users |-> NotOpen]

MapNext ==
  \/ OpenMap(Requester)
  \/ LoadParticipants(Requester)
  \/ LoadItems(Requester)

MapSpec == MapInit /\ [][MapNext]_vars

-----------------------------------------------------------------------------
(* C16 *)

\* the participant has no identity_item row in the lens
NothingIn(id, lens) ==
  \A k \in DOMAIN identity_item :
    ~(identity_item[k].participant_id = id /\ identity_item[k].lens = lens)

-----------------------------------------------------------------------------
(* My Identity (app/me/page.tsx) *)

\* participantInfo: null
NoInfo == [none |-> TRUE]

\* the page as mounted: without stored ids the browser is sent to /join,
\* with them the participant and the items are loaded
meMounted(storage) ==
  IF storage.participantId = NoId \/ storage.sessionId = NoId
    THEN NotOpen
    ELSE [open            |-> TRUE,
          participantId   |-> storage.participantId,
          participantInfo |-> NoInfo,
          items           |-> <<>>,
          loading         |-> TRUE,
          error           |-> NoValue,
          load            |-> "participant",
          updates         |-> <<>>,
          writes          |-> <<>>,
          deleting        |-> FALSE]

\* the user opens /me
OpenMe(u) ==
  /\ ~mePage[u].open
  /\ mePage' = [mePage EXCEPT ![u] = meMounted(localStorage[u])]
  /\ UNCHANGED <<storeVars, localStorage, joinPage, mapPage, request, adminPage>>
  /\ UNCHANGED engineVars

\* loadParticipantAndItems: the participant query answers; without a row
\* the load fails, without consent the browser is sent to /join
MeLoadParticipant(u) ==
  /\ mePage[u].open /\ mePage[u].load = "participant"
  /\ \E ok \in BOOLEAN :
       LET page  == mePage[u]
           found == SelectSeq(participant, LAMBDA r : r.id = page.participantId)
       IN  mePage' = [mePage EXCEPT ![u] =
             IF ~ok \/ Len(found) # 1
               THEN [page EXCEPT !.error = "Failed to load participant",
                                 !.loading = FALSE, !.load = "none"]
             ELSE IF ~found[1].consent_given THEN NotOpen
             ELSE [page EXCEPT
                     !.participantInfo =
                        [display_name  |-> found[1].display_name,
                         is_visible    |-> found[1].is_visible,
                         consent_given |-> found[1].consent_given,
                         session_id    |-> found[1].session_id],
                     !.load = "items"]]
  /\ UNCHANGED <<storeVars, localStorage, joinPage, mapPage, request, adminPage>>
  /\ UNCHANGED engineVars

\* loadParticipantAndItems: the items query answers
MeLoadItems(u) ==
  /\ mePage[u].open /\ mePage[u].load = "items"
  /\ \E ok \in BOOLEAN :
       LET page == mePage[u]
           rows == SelectSeq(identity_item,
                             LAMBDA r : r.participant_id = page.participantId)
       IN  mePage' = [mePage EXCEPT ![u] =
             IF ~ok
               THEN [page EXCEPT !.error = "Failed to load items",
                                 !.loading = FALSE, !.load = "none"]
               ELSE [page EXCEPT
                       !.items = [k \in DOMAIN rows |->
                                    [id     |-> rows[k].id,
                                     lens   |-> rows[k].lens,
                                     type   |-> rows[k].type,
                                     value  |-> rows[k].value,
                                     weight |-> rows[k].weight]],
                       !.loading = FALSE,
                       !.load = "none"]]
  /\ UNCHANGED <<storeVars, localStorage, joinPage, mapPage, request, adminPage>>
  /\ UNCHANGED engineVars

MaxUpdates == 1

\* the user switches the visibility control (shown once participantInfo is
\* loaded): the page shows the new value at once and the update is sent
toggleVisibility(u) ==
  /\ mePage[u].open /\ mePage[u].participantInfo # NoInfo
  /\ Len(mePage[u].updates) < MaxUpdates
  /\ LET newVisible == ~mePage[u].participantInfo.is_visible
     IN  mePage' = [mePage EXCEPT
                      ![u].participantInfo.is_visible = newVisible,
                      ![u].updates = Append(@, newVisible)]
  /\ UNCHANGED <<storeVars, localStorage, joinPage, mapPage, request, adminPage>>
  /\ UNCHANGED engineVars

\* toggleVisibility: update({ is_visible }).eq('id', participantId) answers;
\* a failed update changes nothing and is not reported
toggleVisibilityUpdate(u) ==
  /\ mePage[u].open
  /\ \E i \in DOMAIN mePage[u].updates : \E ok \in BOOLEAN :
       /\ participant' =
            IF ok
              THEN [k \in DOMAIN participant |->
                      IF participant[k].id = mePage[u].participantId
                        THEN [participant[k] EXCEPT
                                !.is_visible = mePage[u].updates[i]]
                        ELSE participant[k]]
              ELSE participant
       /\ mePage' = [mePage EXCEPT ![u].updates = RemoveAt(@, i)]
  /\ UNCHANGED <<sessions, identity_item, uuids, now>>
  /\ UNCHANGED <<localStorage, joinPage, mapPage, request, adminPage>>
  /\ UNCHANGED engineVars

-----------------------------------------------------------------------------
(* Joining and ending a session (app/join/page.tsx,
   app/api/joinSession/route.ts, app/admin/page.tsx) *)

MaxParticipants == 5

\* the user whose browser is on the join page
Joiner == 2

\* the store answers a query, or the query fails
QueryOutcomes == BOOLEAN

\* the admin clicks End Session: expires_at becomes the current time
endSession(id) ==
  /\ \E ok \in QueryOutcomes :
       sessions' = IF ok
                     THEN [k \in DOMAIN sessions |->
                             IF sessions[k].id = id
                               THEN [sessions[k] EXCEPT !.expires_at = now]
                               ELSE sessions[k]]
                     ELSE sessions
  /\ UNCHANGED <<participant, identity_item, uuids, now>>
  /\ UNCHANGED <<localStorage, joinPage, mePage, mapPage, request, adminPage>>
  /\ UNCHANGED engineVars

\* a lookup that answers with the first session whatever the code
anySession(code) == sessions[1].id

\* from('sessions').select('id').eq('code', code).single()
sessionByCode(code) ==
  LET found == SelectSeq(sessions, LAMBDA r : r.code = code)
  IN  IF Len(found) = 1 THEN found[1].id ELSE NoId

\* from('participant').insert(row): the table and the id the store gave
insertParticipant(row) ==
  Append(participant,
         [id            |-> uuids + 1,
          session_id    |-> row.session_id,
          display_name  |-> row.display_name,
          is_visible    |-> row.is_visible,
          consent_given |-> row.consent_given])

\* the participants in the store and those being created by calls in flight
Joining ==
  Len(participant) + Len(joinPage[Joiner].pending)
    + (IF request.stage \in {"session", "insert"} THEN 1 ELSE 0)

\* the user ticks or unticks 'I agree to share only what I enter'
setConsentGiven(u) ==
  /\ joinPage' = [joinPage EXCEPT ![u].consentGiven = ~joinPage[u].consentGiven]
  /\ UNCHANGED <<storeVars, localStorage, mePage, mapPage, request, adminPage>>
  /\ UNCHANGED engineVars

\* the user ticks or unticks 'Be visible to others now'
setIsVisible(u) ==
  /\ joinPage' = [joinPage EXCEPT ![u].isVisible = ~joinPage[u].isVisible]
  /\ UNCHANGED <<storeVars, localStorage, mePage, mapPage, request, adminPage>>
  /\ UNCHANGED engineVars

\* what the user typed as alias and session code
JoinInputs ==
  { [displayName |-> <<" ", "B", "o", " ">>, code |-> <<" ", "A", "B", "1", "2", "C", "D", " ">>],
    [displayName |-> <<" ">>,    code |-> <<"A", "B", "1", "2", "C", "D">>],
    [displayName |-> <<"D", "i">>,   code |-> <<"N", "O", "P", "E", "0", "0">>] }

ConsentError == "You must agree to share what you enter to proceed."

\* the checks of handleJoin without the consent check
handleJoinNoConsentCheck(u, input) ==
  /\ ~joinPage[u].loading
  /\ (trim(input.displayName) # <<>> /\ trim(input.code) # <<>>)
       => Joining < MaxParticipants
  /\ joinPage' = [joinPage EXCEPT ![u] =
       IF trim(input.displayName) = <<>> \/ trim(input.code) = <<>>
         THEN [@ EXCEPT !.error = "Please fill out your alias and session code."]
       ELSE [@ EXCEPT
               !.error   = NoValue,
               !.loading = TRUE,
               !.pending = Append(@, [displayName  |-> input.displayName,
                                      code         |-> input.code,
                                      isVisible    |-> joinPage[u].isVisible,
                                      consentGiven |-> joinPage[u].consentGiven,
                                      stage        |-> "session",
                                      session      |-> NoId])]]
  /\ UNCHANGED <<storeVars, localStorage, mePage, mapPage, request, adminPage>>
  /\ UNCHANGED engineVars

\* the user clicks Join Session (the button is disabled while loading):
\* handleJoin up to its first await
handleJoin(u, input) ==
  /\ ~joinPage[u].loading
  /\ (/\ joinPage[u].consentGiven
      /\ trim(input.displayName) # <<>>
      /\ trim(input.code) # <<>>)
       => Joining < MaxParticipants
  /\ joinPage' = [joinPage EXCEPT ![u] =
       IF ~joinPage[u].consentGiven
         THEN [@ EXCEPT !.error = ConsentError]
       ELSE IF trim(input.displayName) = <<>> \/ trim(input.code) = <<>>
         THEN [@ EXCEPT !.error = "Please fill out your alias and session code."]
       ELSE [@ EXCEPT
               !.error   = NoValue,
               !.loading = TRUE,
               !.pending = Append(@, [displayName  |-> input.displayName,
                                      code         |-> input.code,
                                      isVisible    |-> joinPage[u].isVisible,
                                      consentGiven |-> joinPage[u].consentGiven,
                                      stage        |-> "session",
                                      session      |-> NoId])]]
  /\ UNCHANGED <<storeVars, localStorage, mePage, mapPage, request, adminPage>>
  /\ UNCHANGED engineVars

\* handleJoin: the session query answers
handleJoinSession(u) ==
  /\ \E i \in DOMAIN joinPage[u].pending : \E ok \in QueryOutcomes :
       LET call    == joinPage[u].pending[i]
           session == IF ok THEN sessionByCode(trim(call.code)) ELSE NoId
       IN  /\ call.stage = "session"
           /\ joinPage' = [joinPage EXCEPT ![u] =
                IF session = NoId
                  THEN [@ EXCEPT
                          !.error   = "Session not found. Please check your code.",
                          !.loading = FALSE,
                          !.pending = RemoveAt(@, i)]
                  ELSE [@ EXCEPT
                          !.pending[i].stage   = "insert",
                          !.pending[i].session = session]]
  /\ UNCHANGED <<storeVars, localStorage, mePage, mapPage, request, adminPage>>
  /\ UNCHANGED engineVars

\* handleJoin: the insert answers; on success the ids are stored and the
\* browser leaves for /me
handleJoinInsert(u) ==
  /\ \E i \in DOMAIN joinPage[u].pending : \E ok \in QueryOutcomes :
       LET call == joinPage[u].pending[i]
       IN  /\ call.stage = "insert"
           /\ IF ok
                THEN /\ participant' = insertParticipant(
                          [session_id    |-> call.session,
                           display_name  |-> trim(call.displayName),
                           is_visible    |-> call.isVisible,
                           consent_given |-> call.consentGiven])
                     /\ uuids' = uuids + 1
                     /\ localStorage' = [localStorage EXCEPT
                          ![u].participantId = uuids + 1,
                          ![u].sessionId     = call.session]
                     /\ joinPage' = [joinPage EXCEPT ![u] =
                          [JoinForm EXCEPT
                             !.pending = RemoveAt(joinPage[u].pending, i)]]
                     /\ mePage' = [mePage EXCEPT ![u] =
                          meMounted(localStorage'[u])]
                ELSE /\ joinPage' = [joinPage EXCEPT ![u] =
                          [@ EXCEPT
                             !.error   = "Failed to join the session.",
                             !.loading = FALSE,
                             !.pending = RemoveAt(@, i)]]
                     /\ UNCHANGED <<participant, uuids, localStorage, mePage>>
  /\ UNCHANGED <<sessions, identity_item, now, mapPage, request, adminPage>>
  /\ UNCHANGED engineVars

\* JSON values of a request body
Undefined == [undefined |-> TRUE]

JString(s) == [string |-> s]

JBoolean(b) == [boolean |-> b]

\* the body is not a JSON object: request.json() or the destructuring throws
Unreadable == [unreadable |-> TRUE]

\* !v is false
truthy(v) ==
  IF "boolean" \in DOMAIN v THEN v.boolean
  ELSE IF "string" \in DOMAIN v THEN v.string # <<>>
  ELSE FALSE

\* String(v), for a string v
String(v) == v.string

JoinBodies ==
  { [displayName |-> JString(<<" ", "E", "d", " ">>), sessionCode |-> JString(<<" ", "X", "Y", "3", "4", "Z", "W", "9", " ">>),
     isVisible |-> Undefined, consentGiven |-> JBoolean(TRUE)],
    [displayName |-> JString(<<"A", "n", "n">>), sessionCode |-> JString(<<"A", "B", "1", "2", "C", "D">>),
     isVisible |-> JBoolean(TRUE), consentGiven |-> JBoolean(FALSE)],
    [displayName |-> JString(<<"A", "n", "n">>), sessionCode |-> JString(<<"A", "B", "1", "2", "C", "D">>),
     isVisible |-> JBoolean(FALSE), consentGiven |-> Undefined],
    [displayName |-> Undefined, sessionCode |-> JString(<<"A", "B", "1", "2", "C", "D">>),
     isVisible |-> JBoolean(FALSE), consentGiven |-> JBoolean(FALSE)],
    [displayName |-> JString(<<"A", "n", "n">>), sessionCode |-> JString(<<>>),
     isVisible |-> JBoolean(FALSE), consentGiven |-> JBoolean(TRUE)],
    [displayName |-> JString(<<"A", "n", "n">>), sessionCode |-> JString(<<"N", "O", "P", "E", "0", "0">>),
     isVisible |-> JBoolean(FALSE), consentGiven |-> JBoolean(TRUE)],
    Unreadable }

\* NextResponse.json(..., { status })
respond(body, status, ids) ==
  [stage |-> "responded", body |-> body, status |-> status, ids |-> ids]

NoIds == [participantId |-> NoId, sessionId |-> NoId]

\* POST /api/joinSession arrives: the handler up to its first query
POST(body) ==
  /\ request.stage \in {"none", "responded"}
  /\ (/\ body # Unreadable
      /\ truthy(body.displayName)
      /\ truthy(body.sessionCode)
      /\ truthy(body.consentGiven))
       => Joining < MaxParticipants
  /\ request' =
       IF body = Unreadable THEN respond(body, 500, NoIds)
       ELSE IF ~truthy(body.displayName) \/ ~truthy(body.sessionCode)
         THEN respond(body, 400, NoIds)
       ELSE IF ~truthy(body.consentGiven) THEN respond(body, 400, NoIds)
       ELSE [stage |-> "session", body |-> body, session |-> NoId]
  /\ UNCHANGED <<storeVars, localStorage, joinPage, mePage, mapPage, adminPage>>
  /\ UNCHANGED engineVars

\* POST: the session query answers
POSTSession ==
  /\ request.stage = "session"
  /\ \E ok \in QueryOutcomes :
       LET session == IF ok
                        THEN sessionByCode(trim(String(request.body.sessionCode)))
                        ELSE NoId
       IN  request' = IF session = NoId
                        THEN respond(request.body, 400, NoIds)
                        ELSE [request EXCEPT !.stage = "insert",
                                             !.session = session]
  /\ UNCHANGED <<storeVars, localStorage, joinPage, mePage, mapPage, adminPage>>
  /\ UNCHANGED engineVars

\* POST: the insert answers
POSTInsert ==
  /\ request.stage = "insert"
  /\ \E ok \in QueryOutcomes :
       IF ok
         THEN /\ participant' = insertParticipant(
                   [session_id    |-> request.session,
                    display_name  |-> trim(String(request.body.displayName)),
                    is_visible    |-> truthy(request.body.isVisible),
                    consent_given |-> truthy(request.body.consentGiven)])
              /\ uuids' = uuids + 1
              /\ request' = respond(request.body, 201,
                                    [participantId |-> uuids + 1,
                                     sessionId     |-> request.session])
         ELSE /\ request' = respond(request.body, 500, NoIds)
              /\ UNCHANGED <<participant, uuids>>
  /\ UNCHANGED <<sessions, identity_item, now>>
  /\ UNCHANGED <<localStorage, joinPage, mePage, mapPage, adminPage>>
  /\ UNCHANGED engineVars

\* the participants who joined earlier: the requester and three others,
\* one visible in the requester's session, one invisible in it, one visible
\* in another session
Residents(visible) ==
  << [session_id |-> 1, is_visible |-> visible, profile |-> "given"],
     [session_id |-> 1, is_visible |-> TRUE,    profile |-> "core"],
     [session_id |-> 1, is_visible |-> FALSE,   profile |-> "given"],
     [session_id |-> 2, is_visible |-> TRUE,    profile |-> "given"] >>

\* the admin has created two sessions and four participants have joined and
\* entered their items; the requester's browser holds its ids, the joiner's
\* browser is on the join page
ResidentsInit ==
  /\ EngineIdle
  /\ sessions = CreatedSessions
  /\ \E visible \in BOOLEAN :
       LET kinds == Residents(visible)
       IN  /\ participant = [id \in 1..Len(kinds) |->
                                participantRow(id, kinds[id])]
           /\ identity_item = itemRows(kinds, Len(kinds))
           /\ uuids = Len(kinds) + Len(identity_item)
  /\ now = 1
  /\ localStorage = [u \in Users |->
                       IF u = Requester
                         THEN [participantId |-> 1, sessionId |-> 1,
                               selectedScope |-> NoValue]
                         ELSE NoStorage]
  /\ joinPage = [u \in Users |-> JoinForm]
  /\ mePage = [u \in Users |-> NotOpen]
  /\ mapPage = [u \in Users |-> NotOpen]
  /\ request = NoRequest
  /\ adminPage = AdminForm

JoinInit == ResidentsInit

JoinNext ==
  \/ \E k \in DOMAIN sessions : endSession(sessions[k].id)
  \/ setConsentGiven(Joiner)
  \/ setIsVisible(Joiner)
  \/ \E input \in JoinInputs : handleJoin(Joiner, input)
  \/ handleJoinSession(Joiner)
  \/ handleJoinInsert(Joiner)
  \/ \E body \in JoinBodies : POST(body)
  \/ POSTSession
  \/ POSTInsert

JoinSpec == JoinInit /\ [][JoinNext]_vars

-----------------------------------------------------------------------------
(* C18 *)

\* the body was read and its consentGiven is not false, absent or empty
ConsentIn(body) == body # Unreadable /\ truthy(body.consentGiven)

\* no row, and no call on its way to create one, is without consent; a
\* request without consent was answered with an error and no ids
NothingWithoutConsent ==
  /\ \A k \in DOMAIN participant : participant[k].consent_given
  /\ \A k \in DOMAIN joinPage[Joiner].pending :
       joinPage[Joiner].pending[k].consentGiven
  /\ request.stage \in {"session", "insert"} => ConsentIn(request.body)
  /\ request.stage = "responded" /\ ~ConsentIn(request.body) =>
       /\ request.status = IF request.body = Unreadable THEN 500 ELSE 400
       /\ request.ids = NoIds

\* a click on Join Session without consent sets the error and starts nothing
ClickWithoutConsent ==
  \A input \in JoinInputs :
    handleJoin(Joiner, input) /\ ~joinPage[Joiner].consentGiven =>
      /\ participant' = participant
      /\ joinPage'[Joiner].error = ConsentError
      /\ joinPage'[Joiner].pending = joinPage[Joiner].pending
      /\ ~joinPage'[Joiner].loading

\* a request without consent is answered at once and changes no table
PostWithoutConsent ==
  \A body \in JoinBodies :
    POST(body) /\ ~ConsentIn(body) =>
      /\ participant' = participant
      /\ request'.stage = "responded"
      /\ request'.status = IF body = Unreadable THEN 500 ELSE 400

\* C18: through the join page and POST /api/joinSession no participant record
\* is created when consent is not given: the attempt ends with an error (the
\* consent message on the page, HTTP 400 from the API for a body it could
\* read) and the participant table is unchanged.
ConsentRequired ==
  /\ []NothingWithoutConsent
  /\ [][ClickWithoutConsent /\ PostWithoutConsent]_vars

\* a participant has joined with consent; since then the page refused a
\* click without consent and the API answered 400 to a complete request
\* without consent
ConsentRequiredWitness ==
  /\ Len(participant) = MaxParticipants
  /\ ~joinPage[Joiner].consentGiven
  /\ joinPage[Joiner].error = ConsentError
  /\ request.stage = "responded"
  /\ request.body # Unreadable
  /\ truthy(request.body.displayName) /\ truthy(request.body.sessionCode)
  /\ ~truthy(request.body.consentGiven)
  /\ request.status = 400

-----------------------------------------------------------------------------
(* C19 *)

\* the session has an expires_at that has been reached
Ended(id) ==
  \E k \in DOMAIN sessions :
    /\ sessions[k].id = id
    /\ sessions[k].expires_at # NoTime
    /\ sessions[k].expires_at <= now

\* C19: once a session has been ended, no participant record is created for
\* it: every row a step adds to the participant table belongs to a session
\* that has not ended.
NoJoinAfterEnd ==
  [][\A k \in DOMAIN participant' :
       k > Len(participant) => ~Ended(participant'[k].session_id)]_vars

-----------------------------------------------------------------------------
(* Visibility: joining, switching it on /me, and the People Map of another
   participant *)

\* the user closes the People Map (or reloads: OpenMap follows)
CloseMap(u) ==
  /\ mapPage[u].open
  /\ mapPage' = [mapPage EXCEPT ![u] = NotOpen]
  /\ UNCHANGED <<storeVars, localStorage, joinPage, mePage, request, adminPage>>
  /\ UNCHANGED engineVars

VisibilityInit == ResidentsInit

VisibilityNext ==
  \/ setConsentGiven(Joiner)
  \/ setIsVisible(Joiner)
  \/ \E input \in JoinInputs : handleJoin(Joiner, input)
  \/ handleJoinSession(Joiner)
  \/ handleJoinInsert(Joiner)
  \/ MeLoadParticipant(Joiner)
  \/ MeLoadItems(Joiner)
  \/ toggleVisibility(Joiner)
  \/ toggleVisibilityUpdate(Joiner)
  \/ OpenMap(Requester)
  \/ LoadParticipants(Requester)
  \/ LoadItems(Requester)
  \/ CloseMap(Requester)

VisibilitySpec == VisibilityInit /\ [][VisibilityNext]_vars

-----------------------------------------------------------------------------
(* C20 *)

\* the row of the store with this id
RowOf(id) == CHOOSE r \in {participant[k] : k \in DOMAIN participant} : r.id = id

Ids(rows) == {rows[k].id : k \in DOMAIN rows}

\* the box 'Be visible to others now' gets ticked only by the user, and a
\* call of handleJoin carries the box as it was at the click
BoxTickedByUser ==
  /\ joinPage'[Joiner].isVisible /\ ~joinPage[Joiner].isVisible
       => setIsVisible(Joiner)
  /\ Len(joinPage'[Joiner].pending) > Len(joinPage[Joiner].pending) =>
       joinPage'[Joiner].pending[Len(joinPage'[Joiner].pending)].isVisible
         = joinPage[Joiner].isVisible

\* a new row is visible only when the call that created it carried a ticked
\* box; a row becomes visible later only by the update its participant sent
\* from /me, and such an update is sent only by switching the control
VisibleByOwnChoice ==
  /\ \A k \in DOMAIN participant' :
       IF k > Len(participant)
         THEN \E i \in DOMAIN joinPage[Joiner].pending :
                /\ joinPage[Joiner].pending[i].stage = "insert"
                /\ participant'[k].is_visible = joinPage[Joiner].pending[i].isVisible
         ELSE participant'[k].is_visible /\ ~participant[k].is_visible =>
                /\ mePage[Joiner].open
                /\ mePage[Joiner].participantId = participant[k].id
                /\ localStorage[Joiner].participantId = participant[k].id
                /\ TRUE \in Range(mePage[Joiner].updates)
                /\ toggleVisibilityUpdate(Joiner)
  /\ mePage'[Joiner].open /\ mePage[Joiner].open
       /\ Len(mePage'[Joiner].updates) > Len(mePage[Joiner].updates)
       => toggleVisibility(Joiner)

\* the first query of a load has answered
ParticipantsLoaded ==
  /\ LoadParticipants(Requester)
  /\ \E i \in DOMAIN mapPage'[Requester].loads :
       mapPage'[Requester].loads[i].stage = "items"

\* the participants of the requester's session who are visible in the store
VisibleInSession ==
  {participant[k].id : k \in
     {j \in DOMAIN participant :
        /\ participant[j].is_visible
        /\ participant[j].session_id
             = RowOf(mapPage[Requester].participantId).session_id}}

\* the list a load sets holds the visible participants of P's session who
\* are not P
ListsVisibleOthers ==
  ParticipantsLoaded =>
    Ids(mapPage'[Requester].participants)
      = VisibleInSession \ {mapPage[Requester].participantId}

\* the list a load sets holds the visible participants of P's session, P
\* among them when P is visible
ListsVisible ==
  ParticipantsLoaded =>
    Ids(mapPage'[Requester].participants) = VisibleInSession

\* the second query of a load has answered
ItemsLoaded ==
  /\ mapPage[Requester].open /\ mapPage[Requester].loading
  /\ mapPage'[Requester].open /\ ~mapPage'[Requester].loading
  /\ mapPage'[Requester].error = NoValue

\* the scores and the two top lists a load sets are those of the listed
\* participants other than P, each score computed from P's identity in the
\* store
RanksListedOthers ==
  LET page == mapPage'[Requester]
      P    == page.participantId
  IN  ItemsLoaded =>
        /\ DOMAIN page.similarities = Ids(page.participants) \ {P}
        /\ Listed(page.topSimilar) \subseteq DOMAIN page.similarities
        /\ Listed(page.topDifferent) \subseteq DOMAIN page.similarities
        /\ \A id \in DOMAIN page.similarities :
             page.similarities[id].overall
               = computeSimilarity(identityOf(identity_item, P),
                                   identityOf(identity_item, id)).scoreOverall

\* C20 as stated: the list of the People Map of P holds only participants
\* who are not P.
VisibleOnlyAsStated ==
  [][/\ BoxTickedByUser
     /\ VisibleByOwnChoice
     /\ ListsVisibleOthers
     /\ RanksListedOthers]_vars

\* C20: visibility is off unless the participant turns it on (the box on the
\* join page, the control on /me); the People Map of P lists only visible
\* participants of P's session (P itself among them when P is visible) and
\* ranks only those of them who are not P, with scores computed from P's own
\* identity whether P is visible or not.
VisibleOnly ==
  [][/\ BoxTickedByUser
     /\ VisibleByOwnChoice
     /\ ListsVisible
     /\ RanksListedOthers]_vars

\* the joiner joined without ticking the box and is invisible in the store,
\* while the People Map of the invisible requester, loaded after the joiner
\* had switched visibility on, lists and ranks the joiner and one resident,
\* with a score above zero for the resident
VisibleOnlyWitness ==
  LET page == mapPage[Requester]
      P    == page.participantId
  IN  /\ page.open /\ ~page.loading /\ page.error = NoValue
      /\ ~RowOf(P).is_visible
      /\ Len(participant) = 5
      /\ ~participant[5].is_visible
      /\ Ids(page.participants) = {2, participant[5].id}
      /\ Listed(page.topSimilar) = {2, participant[5].id}
      /\ Less(Zero, page.similarities[2].overall)

-----------------------------------------------------------------------------
(* Delete my data (app/me/page.tsx) and the People Map of another
   participant *)

\* the participant the joiner's browser holds the id of
Resident == 2

\* delete().eq('id', id) on participant
deleteParticipant(id) == SelectSeq(participant, LAMBDA r : r.id # id)

\* participant_id ... references participant(id) on delete cascade
cascadeItems(id) == SelectSeq(identity_item, LAMBDA r : r.participant_id # id)

\* the user presses 'Delete my data' (shown once participantInfo is loaded):
\* the delete is sent
deleteMyData(u) ==
  /\ mePage[u].open /\ mePage[u].participantInfo # NoInfo
  /\ ~mePage[u].deleting
  /\ mePage' = [mePage EXCEPT ![u].deleting = TRUE]
  /\ UNCHANGED <<storeVars, localStorage, joinPage, mapPage, request, adminPage>>
  /\ UNCHANGED engineVars

\* deleteMyData: the delete answers; whatever the answer, the stored
\* participantId is removed and the browser is sent to /join
deleteMyDataDelete(u) ==
  /\ mePage[u].open /\ mePage[u].deleting
  /\ \E ok \in QueryOutcomes :
       /\ participant' =
            IF ok THEN deleteParticipant(mePage[u].participantId)
                  ELSE participant
       /\ identity_item' =
            IF ok THEN cascadeItems(mePage[u].participantId)
                  ELSE identity_item
  /\ localStorage' = [localStorage EXCEPT ![u].participantId = NoId]
  /\ mePage' = [mePage EXCEPT ![u] = NotOpen]
  /\ joinPage' = [joinPage EXCEPT ![u] = JoinForm]
  /\ UNCHANGED <<sessions, uuids, now, mapPage, request, adminPage>>
  /\ UNCHANGED engineVars

\* four participants have joined earlier and entered their items; the
\* requester's browser and the joiner's browser hold their ids
MeInit ==
  /\ EngineIdle
  /\ sessions = CreatedSessions
  /\ \E visible \in BOOLEAN :
       LET kinds == Residents(visible)
       IN  /\ participant = [id \in 1..Len(kinds) |->
                                participantRow(id, kinds[id])]
           /\ identity_item = itemRows(kinds, Len(kinds))
           /\ uuids = Len(kinds) + Len(identity_item)
  /\ now = 1
  /\ localStorage = [u \in Users |->
                       [participantId |-> IF u = Requester THEN 1 ELSE Resident,
                        sessionId     |-> 1,
                        selectedScope |-> NoValue]]
  /\ joinPage = [u \in Users |-> JoinForm]
  /\ mePage = [u \in Users |-> NotOpen]
  /\ mapPage = [u \in Users |-> NotOpen]
  /\ request = NoRequest
  /\ adminPage = AdminForm

DeleteInit == MeInit

DeleteNext ==
  \/ OpenMe(Joiner)
  \/ MeLoadParticipant(Joiner)
  \/ MeLoadItems(Joiner)
  \/ toggleVisibility(Joiner)
  \/ toggleVisibilityUpdate(Joiner)
  \/ deleteMyData(Joiner)
  \/ deleteMyDataDelete(Joiner)
  \/ OpenMap(Requester)
  \/ LoadParticipants(Requester)
  \/ LoadItems(Requester)
  \/ CloseMap(Requester)

DeleteSpec == DeleteInit /\ [][DeleteNext]_vars

-----------------------------------------------------------------------------
(* C21 *)

\* the joiner has used 'Delete my data': the browser no longer holds the id
UsedDeleteMyData == localStorage[Joiner].participantId = NoId

\* the participant record and all of its identity items are gone from the
\* store, and the browser has left /me for /join
RecordsGone ==
  UsedDeleteMyData =>
    /\ \A k \in DOMAIN participant : participant[k].id # Resident
    /\ \A k \in DOMAIN identity_item :
         identity_item[k].participant_id # Resident
    /\ ~mePage[Joiner].open
    /\ joinPage[Joiner] = JoinForm

\* a participants query of another People Map that answers from then on
\* does not list the participant
ListedNoMore ==
  ( /\ UsedDeleteMyData
    /\ mapPage[Requester].open
    /\ mapPage'[Requester].open
    /\ mapPage'[Requester].participants # mapPage[Requester].participants )
  => Resident \notin Ids(mapPage'[Requester].participants)

\* C21: after a participant has used 'Delete my data', the participant
\* record and all of its identity items are gone from the store, the
\* participant is in no list another People Map loads from then on, and the
\* browser is on /join with its stored participantId cleared
DeleteMyDataRemoves == []RecordsGone /\ [][ListedNoMore]_vars

-----------------------------------------------------------------------------
(* Join codes (lib/codeGenerator.ts, app/api/session/route.ts) *)

alphabet == <<"A", "B", "C", "D", "E", "F", "G", "H", "J", "K", "L", "M", "N", "P", "Q", "R", "S", "T", "U", "V", "W", "X", "Y", "Z", "2", "3", "4", "5", "6", "7", "8", "9">>

\* Math.max(x, y)
MathMax(x, y) ==
  IF x = NaN \/ y = NaN THEN NaN ELSE IF Less(x, y) THEN y ELSE x

\* Math.min(x, y)
MathMin(x, y) ==
  IF x = NaN \/ y = NaN THEN NaN ELSE IF Less(y, x) THEN y ELSE x

\* Math.floor(x), for a finite x
MathFloor(x) == x.num \div x.den

\* s.charAt(i), i counted from 0
charAt(s, i) == s[i + 1]

\* for (let i = 0; i < safeLength; i++) code += alphabet.charAt(...);
\* random[i + 1] is what the i-th call of Math.random() returns
RECURSIVE appendChars(_, _, _, _)
appendChars(code, i, safeLength, random) ==
  IF Less(Num(i), safeLength)
    THEN appendChars(
           Append(code,
                  charAt(alphabet,
                         MathFloor(Mul(random[i + 1], Num(Len(alphabet)))))),
           i + 1, safeLength, random)
    ELSE code


generateSessionCode(length, random) ==
  LET safeLength == MathMin(MathMax(length, Num(6)), Num(8))
  IN  appendChars(<<>>, 0, safeLength, random)

\* generateSessionCode(): length = 6
generateCode(random) == generateSessionCode(Num(6), random)

\* POST /api/session: const length = 6 + Math.floor(Math.random() * 3);
\* const code = generateSessionCode(length); first is the first value
\* Math.random() returns
routeCode(first, random) ==
  generateSessionCode(Add(Num(6), Num(MathFloor(Mul(first, Num(3))))), random)

MaxLength == 9

\* the lengths a caller asks for: whole numbers around the two limits,
\* numbers between them, and the values of number that are no length
RequestedLengths ==
  {Num(n) : n \in -1..MaxLength}
    \cup {Rat(13, 2), Rat(15, 2), Rat(17, 2), Infinity, NaN}

\* what Math.random() returns: a number from 0 up to, not including, 1
Randoms == {Zero, Rat(1, 2), Rat(31, 32)}

\* the longest code takes 8 calls of Math.random()
RandomDraws == [1..8 -> Randoms]

CodeInit ==
  /\ pc = "ready"
  /\ ret = None
  /\ history = NoHistory
  /\ AppIdle
  /\ \/ /\ op = "generateSessionCode"
        /\ \E length \in RequestedLengths : args = [length |-> length]
     \/ /\ op = "generateCode"
        /\ args = None
     \/ /\ op = "POST /api/session"
        /\ args = None

CallGenerateSessionCode ==
  /\ pc = "ready" /\ op = "generateSessionCode"
  /\ \E random \in RandomDraws :
       Return(generateSessionCode(args.length, random))

CallGenerateCode ==
  /\ pc = "ready" /\ op = "generateCode"
  /\ \E random \in RandomDraws : Return(generateCode(random))

\* the code POST /api/session generates
CallRouteCode ==
  /\ pc = "ready" /\ op = "POST /api/session"
  /\ \E first \in Randoms : \E random \in RandomDraws :
       Return(routeCode(first, random))

CodeNext == CallGenerateSessionCode \/ CallGenerateCode \/ CallRouteCode

CodeSpec == CodeInit /\ [][CodeNext]_vars

-----------------------------------------------------------------------------
(* C22 *)

\* uppercase letters and the digits 2-9, without O and I
CodeChars == (UpperSet \ {"O", "I"}) \cup (Range(Digits) \ {"0", "1"})

\* 6 to 8 characters, none of them outside CodeChars
IsJoinCode(code) ==
  /\ Len(code) \in 6..8
  /\ \A i \in DOMAIN code : code[i] \in CodeChars

\* the code has as many characters as the requested length says, within 6..8
Clamped(length, code) ==
  /\ ~Less(Num(6), length) => Len(code) = 6
  /\ ~Less(length, Num(8)) => Len(code) = 8
  /\ \A n \in 6..8 : length = Num(n) => Len(code) = n

JoinCodesOfNumbers ==
  /\ Done("generateSessionCode") =>
       IF args.length = NaN
         THEN ret = <<>>
         ELSE IsJoinCode(ret) /\ Clamped(args.length, ret)
  /\ Done("generateCode") => IsJoinCode(ret) /\ Len(ret) = 6
  /\ Done("POST /api/session") => IsJoinCode(ret)

\* a length above 8 gave a code of 8 characters that ends in 9, the last
\* character of the alphabet
JoinCodesOfNumbersWitness ==
  /\ Done("generateSessionCode")
  /\ args.length = Num(MaxLength)
  /\ Len(ret) = 8
  /\ ret[8] = "9" /\ ret[1] = "A"

-----------------------------------------------------------------------------
(* Purging expired sessions (scripts/seed.ts: purgeExpired) *)

MaxTime == 3

\* time passes
Tick ==
  /\ now < MaxTime
  /\ now' = now + 1
  /\ UNCHANGED <<sessions, participant, identity_item, uuids>>
  /\ UNCHANGED <<localStorage, joinPage, mePage, mapPage, request, adminPage>>
  /\ UNCHANGED engineVars

\* .lte(...) letting a null expires_at through
lteOrNull(value, bound) == value <= bound

\* .lte('expires_at', now): a null expires_at compares as unknown and the
\* row is not selected
lte(value, bound) == value # NoTime /\ value <= bound

\* the rows of sessions the delete leaves
afterPurge(time) ==
  SelectSeq(sessions, LAMBDA s : ~lte(s.expires_at, time))

\* session_id ... references sessions(id) on delete cascade
cascadeParticipants(kept) ==
  SelectSeq(participant,
            LAMBDA p : \E k \in DOMAIN kept : kept[k].id = p.session_id)

\* participant_id ... references participant(id) on delete cascade
cascadeItemsOf(kept) ==
  SelectSeq(identity_item,
            LAMBDA r : \E k \in DOMAIN kept : kept[k].id = r.participant_id)

\* one run of the script: the time is read and the delete is sent; the
\* store carries the delete and its cascades out as one statement, or the
\* delete fails and the script reports it
purgeExpired ==
  /\ \E ok \in QueryOutcomes :
       IF ok
         THEN /\ sessions' = afterPurge(now)
              /\ participant' = cascadeParticipants(afterPurge(now))
              /\ identity_item' =
                   cascadeItemsOf(cascadeParticipants(afterPurge(now)))
         ELSE UNCHANGED <<sessions, participant, identity_item>>
  /\ UNCHANGED <<uuids, now>>
  /\ UNCHANGED <<localStorage, joinPage, mePage, mapPage, request, adminPage>>
  /\ UNCHANGED engineVars

\* the admin has created two sessions, with an expiry, already ended or
\* running, and four participants have joined and entered their items
PurgeInit ==
  /\ EngineIdle
  /\ \E first, second \in {NoTime} \cup (1..MaxTime) :
       sessions = << [CreatedSessions[1] EXCEPT !.expires_at = first],
                     [CreatedSessions[2] EXCEPT !.expires_at = second] >>
  /\ \E visible \in BOOLEAN :
       LET kinds == Residents(visible)
       IN  /\ participant = [id \in 1..Len(kinds) |->
                                participantRow(id, kinds[id])]
           /\ identity_item = itemRows(kinds, Len(kinds))
           /\ uuids = Len(kinds) + Len(identity_item)
  /\ now = 1
  /\ BrowsersIdle

PurgeNext ==
  \/ Tick
  \/ \E k \in DOMAIN sessions : endSession(sessions[k].id)
  \/ purgeExpired

PurgeSpec == PurgeInit /\ [][PurgeNext]_vars

-----------------------------------------------------------------------------
(* C23 *)

\* expires_at is set and not later than the time of the run
Expired(s) == s.expires_at # NoTime /\ s.expires_at <= now

SessionsLeft == {sessions[k] : k \in DOMAIN sessions}

\* the sessions, participants and items of the sessions that have not
\* expired, each row as it was and in the order it had
RowsOfLiveSessions ==
  LET live   == {s.id : s \in {x \in SessionsLeft : ~Expired(x)}}
      joined == {participant[k].id : k \in
                   {j \in DOMAIN participant : participant[j].session_id \in live}}
  IN  [sessions      |-> SelectSeq(sessions, LAMBDA s : s.id \in live),
       participant   |-> SelectSeq(participant,
                                   LAMBDA p : p.session_id \in live),
       identity_item |-> SelectSeq(identity_item,
                                   LAMBDA r : r.participant_id \in joined)]

\* C23: a purge run deletes exactly the sessions whose expires_at is set and
\* not later than the run's time, with all their participants and those
\* participants' identity items; sessions with no expiry or a later expiry,
\* and all rows that belong to them, are left as they were
PurgeDeletesExpired ==
  [][purgeExpired =>
       /\ sessions' = RowsOfLiveSessions.sessions
       /\ participant' = RowsOfLiveSessions.participant
       /\ identity_item' = RowsOfLiveSessions.identity_item]_vars

\* a purge has deleted the first session with its three participants and
\* left the second, which expires later, with its participant and item
PurgeDeletesExpiredWitness ==
  /\ Len(sessions) = 1
  /\ sessions[1].expires_at > now
  /\ Len(participant) = 1 /\ participant[1].session_id = sessions[1].id
  /\ Len(identity_item) = 1
  /\ identity_item[1].participant_id = participant[1].id

-----------------------------------------------------------------------------
(* Creating sessions (app/admin/page.tsx, app/api/session/route.ts) *)

MaxSessions == 3

\* an insert into sessions without the unique constraint on code
insertSessionAnyCode(code, title, expires_at) ==
  [ok  |-> TRUE,
   row |-> [id |-> uuids + 1, code |-> code, title |-> title,
            expires_at |-> expires_at]]

\* code varchar(8) not null unique: an insert into sessions is refused when
\* a stored session has the code; id is generated
insertSession(code, title, expires_at) ==
  IF \E k \in DOMAIN sessions : sessions[k].code = code
    THEN [ok |-> FALSE]
    ELSE [ok  |-> TRUE,
          row |-> [id |-> uuids + 1, code |-> code, title |-> title,
                   expires_at |-> expires_at]]

\* what the admin types as the title
Titles == { <<"W", "o", "r", "k", "s", "h", "o", "p">>, <<" ">> }

\* Math.random() as often as a code needs it, for codes that can repeat
CodeDraws == {[i \in 1..8 |-> r] : r \in {Zero, Rat(31, 32)}}

\* the admin clicks Create (disabled while loading): without a title
\* nothing happens, with one a code is generated and the insert is sent
handleCreateSession(title) ==
  /\ ~adminPage.loading
  /\ IF trim(title) = <<>>
       THEN UNCHANGED adminPage
       ELSE /\ Len(sessions) < MaxSessions
            /\ \E random \in CodeDraws :
                 adminPage' = [adminPage EXCEPT
                                 !.loading = TRUE,
                                 !.create  = [stage |-> "insert",
                                              code  |-> generateCode(random),
                                              title |-> trim(title)]]
  /\ UNCHANGED <<storeVars, localStorage, joinPage, mePage, mapPage, request>>
  /\ UNCHANGED engineVars

\* handleCreateSession: the insert answers
handleCreateSessionInsert ==
  /\ adminPage.create.stage = "insert"
  /\ \E ok \in QueryOutcomes :
       LET inserted == insertSession(adminPage.create.code,
                                     adminPage.create.title, NoTime)
       IN  IF ok /\ inserted.ok
             THEN /\ sessions' = Append(sessions, inserted.row)
                  /\ uuids' = uuids + 1
                  /\ adminPage' =
                       [adminPage EXCEPT
                          !.message = [created |-> inserted.row.code],
                          !.create  = [stage |-> "loadSessions"]]
             ELSE /\ adminPage' =
                       [adminPage EXCEPT
                          !.message = [error |-> "Failed to create session"],
                          !.loading = FALSE,
                          !.create  = NoCreate]
                  /\ UNCHANGED <<sessions, uuids>>
  /\ UNCHANGED <<participant, identity_item, now>>
  /\ UNCHANGED <<localStorage, joinPage, mePage, mapPage, request>>
  /\ UNCHANGED engineVars

\* handleCreateSession: loadSessions has answered; setLoading(false)
handleCreateSessionLoaded ==
  /\ adminPage.create.stage = "loadSessions"
  /\ adminPage' = [adminPage EXCEPT !.loading = FALSE, !.create = NoCreate]
  /\ UNCHANGED <<storeVars, localStorage, joinPage, mePage, mapPage, request>>
  /\ UNCHANGED engineVars

\* the bodies sent to POST /api/session
SessionBodies ==
  { [title |-> JString(<<"R", "e", "t", "r", "o">>), expiresAt |-> JString(<<"2", "0", "3", "1", "-", "0", "1", "-", "0", "1">>)],
    [title |-> JString(<<>>), expiresAt |-> Undefined],
    [title |-> Undefined, expiresAt |-> Undefined],
    Unreadable }

\* expires_at: expiresAt ?? null; a timestamp that is sent is read as the
\* latest time
expiresAtOf(body) ==
  IF body.expiresAt = Undefined THEN NoTime ELSE MaxTime

\* POST /api/session answers
respondSession(body, status, session) ==
  [stage |-> "responded", body |-> body, status |-> status,
   session |-> session]

\* POST /api/session up to the insert: a body that cannot be read or has no
\* title is answered 400; else a code is generated and the insert is sent
POSTCreate(body) ==
  /\ request.stage \in {"none", "responded"}
  /\ IF body = Unreadable \/ ~truthy(body.title)
       THEN request' = respondSession(body, 400, Null)
       ELSE /\ Len(sessions) < MaxSessions
            /\ \E first \in Randoms : \E random \in CodeDraws :
                 request' = [stage |-> "sessions insert", body |-> body,
                             code  |-> routeCode(first, random)]
  /\ UNCHANGED <<storeVars, localStorage, joinPage, mePage, mapPage, adminPage>>
  /\ UNCHANGED engineVars

\* POST /api/session: the insert answers
POSTCreateInsert ==
  /\ request.stage = "sessions insert"
  /\ \E ok \in QueryOutcomes :
       LET inserted == insertSession(request.code, request.body.title.string,
                                     expiresAtOf(request.body))
       IN  IF ok /\ inserted.ok
             THEN /\ sessions' = Append(sessions, inserted.row)
                  /\ uuids' = uuids + 1
                  /\ request' = respondSession(request.body, 201, inserted.row)
             ELSE /\ request' = respondSession(request.body, 500, Null)
                  /\ UNCHANGED <<sessions, uuids>>
  /\ UNCHANGED <<participant, identity_item, now>>
  /\ UNCHANGED <<localStorage, joinPage, mePage, mapPage, adminPage>>
  /\ UNCHANGED engineVars

\* nothing is stored yet and the Session Admin page is open
SessionsInit == EngineIdle /\ AppIdle

SessionsNext ==
  \/ \E title \in Titles : handleCreateSession(title)
  \/ handleCreateSessionInsert
  \/ handleCreateSessionLoaded
  \/ \E body \in SessionBodies : POSTCreate(body)
  \/ POSTCreateInsert

SessionsSpec == SessionsInit /\ [][SessionsNext]_vars

-----------------------------------------------------------------------------
(* C24 *)

Codes == {sessions[k].code : k \in DOMAIN sessions}

\* no two stored sessions share a code
UniqueCodes ==
  \A i, j \in DOMAIN sessions :
    sessions[i].code = sessions[j].code => i = j

\* the insert of the admin page answers for a code that a stored session has
AdminCollides ==
  /\ adminPage.create.stage = "insert"
  /\ adminPage'.create.stage # "insert"
  /\ adminPage.create.code \in Codes

\* the insert of POST /api/session answers for such a code
RequestCollides ==
  /\ request.stage = "sessions insert"
  /\ request'.stage # "sessions insert"
  /\ request.code \in Codes

\* a creation whose code collides reports an error and stores no session
CollisionRefused ==
  /\ AdminCollides =>
       /\ sessions' = sessions
       /\ "error" \in DOMAIN adminPage'.message
  /\ RequestCollides =>
       /\ sessions' = sessions
       /\ request'.status = 500 /\ request'.session = Null

\* C24: under any interleaving of session creations from the admin page and
\* POST /api/session no two stored sessions ever share a code, and a
\* creation whose generated code collides with a stored one reports an
\* error and stores no session
UniqueJoinCodes == []UniqueCodes /\ [][CollisionRefused]_vars

\* both ways of creating a session have stored one and have then been
\* refused one for a code that was stored
UniqueJoinCodesWitness ==
  /\ Len(sessions) >= 2
  /\ \E k \in DOMAIN sessions : sessions[k].expires_at = NoTime
  /\ "error" \in DOMAIN adminPage.message
  /\ request.stage = "responded" /\ request.status = 500
  /\ \E k \in DOMAIN sessions : sessions[k].expires_at # NoTime

-----------------------------------------------------------------------------
(* Selecting a scope on the People Map (app/map/page.tsx) *)

MaxLoads == 2

\* the user clicks a scope chip: the scope is set and stored; when it has
\* changed the effect runs again and starts a load of its own, while the
\* loads started before go on
setScope(u, newScope) ==
  /\ mapPage[u].open
  /\ localStorage' = [localStorage EXCEPT ![u].selectedScope = newScope]
  /\ IF newScope = mapPage[u].scope
          \/ mapPage[u].participantId = NoId \/ mapPage[u].sessionId = NoId
       THEN mapPage' = [mapPage EXCEPT ![u].scope = newScope]
       ELSE /\ Len(mapPage[u].loads) < MaxLoads
            /\ mapPage' = [mapPage EXCEPT
                 ![u].scope   = newScope,
                 ![u].loading = TRUE,
                 ![u].error   = NoValue,
                 ![u].loads   = Append(@, [scope           |-> newScope,
                                           stage           |-> "participants",
                                           participantRows |-> <<>>])]
  /\ UNCHANGED <<storeVars, joinPage, mePage, request, adminPage>>
  /\ UNCHANGED engineVars

\* four participants have joined earlier and entered their items; the
\* requester's browser holds its ids and no scope, or something that is none
ScopeInit ==
  /\ EngineIdle
  /\ sessions = CreatedSessions
  /\ \E visible \in BOOLEAN :
       LET kinds == Residents(visible)
       IN  /\ participant = [id \in 1..Len(kinds) |->
                                participantRow(id, kinds[id])]
           /\ identity_item = itemRows(kinds, Len(kinds))
           /\ uuids = Len(kinds) + Len(identity_item)
  /\ now = 1
  /\ \E stored \in StoredScopes \ Scopes :
       localStorage = [u \in Users |->
                         IF u = Requester
                           THEN [participantId |-> 1, sessionId |-> 1,
                                 selectedScope |-> stored]
                           ELSE NoStorage]
  /\ joinPage = [u \in Users |-> JoinForm]
  /\ mePage = [u \in Users |-> NotOpen]
  /\ mapPage = [u \in Users |-> NotOpen]
  /\ request = NoRequest
  /\ adminPage = AdminForm

ScopeNext ==
  \/ OpenMap(Requester)
  \/ \E newScope \in Scopes : setScope(Requester, newScope)
  \/ LoadParticipants(Requester)
  \/ LoadItems(Requester)
  \/ CloseMap(Requester)

ScopeSpec == ScopeInit /\ [][ScopeNext]_vars

-----------------------------------------------------------------------------
(* C25 *)

\* the two top lists made from the similarities the page holds, for a scope
RankingFor(page, scope) ==
  LET others == SelectSeq(page.participants,
                          LAMBDA p : p.id # page.participantId)
  IN  updateMatches(matchListOf(others, page.similarities, scope))

\* no load is in flight and the last one to finish brought its data
Settled(page) ==
  page.open /\ page.loads = <<>> /\ page.error = NoValue /\ ~page.loading

\* C25: after any sequence of scope changes and load completions, once no
\* load is in flight, the Top 3 Similar and Top 3 Different lists are the
\* ranking for the scope that is selected now
TopListsFollowScope ==
  \A u \in Users :
    Settled(mapPage[u]) =>
      /\ mapPage[u].topSimilar =
           RankingFor(mapPage[u], mapPage[u].scope).topSimilar
      /\ mapPage[u].topDifferent =
           RankingFor(mapPage[u], mapPage[u].scope).topDifferent

-----------------------------------------------------------------------------
(* C26 *)

\* what a page that mounts takes as its scope from the browser's storage
ScopeToStartWith(storage) ==
  IF storage.selectedScope \in {"overall", "GIVEN", "CHOSEN", "CORE"}
    THEN storage.selectedScope
    ELSE "overall"

\* the scope the user selects is the scope that is stored
SelectionStored ==
  \A u \in Users :
    /\ mapPage[u].open /\ mapPage'[u].open
    /\ mapPage'[u].scope # mapPage[u].scope
    => localStorage'[u].selectedScope = mapPage'[u].scope

\* a page that opens starts with the stored scope, or with overall when
\* nothing valid is stored
ReloadRestores ==
  \A u \in Users :
    ~mapPage[u].open /\ mapPage'[u].open
      => /\ mapPage'[u].scope = ScopeToStartWith(localStorage[u])
         /\ localStorage'[u] = localStorage[u]

\* the scope of an open page and the stored scope agree at any time
ScopeAsStored ==
  \A u \in Users :
    mapPage[u].open => mapPage[u].scope = ScopeToStartWith(localStorage[u])

\* C26: after the user selects a scope, a reload of the People Map starts
\* with that same scope; when nothing valid is stored (no value, or a value
\* other than overall, GIVEN, CHOSEN or CORE) it starts with overall
ScopePersists ==
  /\ []ScopeAsStored
  /\ [][SelectionStored /\ ReloadRestores]_vars

\* the page has just been opened again and starts with CORE, a scope that
\* can only be there because the user selected it before the reload
ScopePersistsWitness ==
  /\ mapPage[Requester].open
  /\ mapPage[Requester].scope = "CORE"
  /\ mapPage[Requester].similarities = <<>>
  /\ mapPage[Requester].error = NoValue
  /\ Len(mapPage[Requester].loads) = 1
  /\ mapPage[Requester].loads[1].scope = "CORE"
  /\ mapPage[Requester].loads[1].stage = "participants"

-----------------------------------------------------------------------------
(* C27 *)

\* C27 as stated: for every text, no token in the sequence tokenize returns
\* is a member of the stopword set
NoStopWordReturned ==
  Done("tokenize") => \A k \in DOMAIN ret : ret[k] \notin STOP_WORDS

\* C27: for every text, no word of the text that is in the stopword set
\* gives a token: tokenize returns one token for each of the other words, in
\* order; a returned token is in the stopword set only where stemming made
\* it from a longer word that is not ('be' from 'being')
StopWordsDropped ==
  Done("tokenize") =>
    LET words == WordsOf(args.text)
    IN  /\ Len(ret) = Len(words)
        /\ \A k \in DOMAIN ret :
             /\ Len(ret[k]) <= Len(words[k])
             /\ ret[k] = SubSeq(words[k], 1, Len(ret[k]))
             /\ ret[k] \in STOP_WORDS =>
                  /\ MatchesSuffixRule(words[k])
                  /\ Len(ret[k]) < Len(words[k])

\* a text with a stopword that is dropped, a word that stemming turns into a
\* stopword, and a word that comes back as it is
StopWordsDroppedWitness ==
  /\ Done("tokenize")
  /\ Cardinality(RunsOf(toLowerCase(args.text))) > Len(ret)
  /\ \E k \in DOMAIN ret : ret[k] \in STOP_WORDS
  /\ \E k \in DOMAIN ret :
       ret[k] = WordsOf(args.text)[k] /\ ret[k] \notin STOP_WORDS

-----------------------------------------------------------------------------
(* C28 *)

\* a step of the handler of POST /api/joinSession
RequestStep ==
  \/ \E body \in JoinBodies : POST(body)
  \/ POSTSession
  \/ POSTInsert

\* the step inserted exactly one participant row: the one the answer names,
\* for the session whose code is the trimmed sessionCode of the body
InsertedOne ==
  /\ Len(participant') = Len(participant) + 1
  /\ SubSeq(participant', 1, Len(participant)) = participant
  /\ LET row == participant'[Len(participant')]
     IN  /\ row.id = request'.ids.participantId
         /\ row.session_id = request'.ids.sessionId
         /\ \A k \in DOMAIN participant : participant[k].id # row.id
         /\ \E k \in DOMAIN sessions :
              /\ sessions[k].id = row.session_id
              /\ sessions[k].code = trim(String(request'.body.sessionCode))

\* the answer of a step that answers: 201 with the ids of the one row the
\* step inserted, or 400 or 500 with no ids and nothing inserted
AnswerAfterInsert ==
  RequestStep /\ request'.stage = "responded" =>
    IF request'.status = 201
      THEN /\ request.stage = "insert"
           /\ request'.body = request.body
           /\ InsertedOne
      ELSE /\ request'.status \in {400, 500}
           /\ request'.ids = NoIds
           /\ participant' = participant

\* a step that does not answer inserts nothing
NoInsertBeforeAnswer ==
  RequestStep /\ request'.stage # "responded" => participant' = participant

\* the outcomes that are not a join: each has its status
RefusedOutcome ==
  request.stage = "responded" /\ request.status # 201 =>
    LET body == request.body
    IN  IF body = Unreadable THEN request.status = 500
        ELSE IF \/ ~truthy(body.displayName)
                \/ ~truthy(body.sessionCode)
                \/ ~truthy(body.consentGiven)
          THEN request.status = 400
        ELSE request.status \in {400, 500}

\* C28: POST /api/joinSession answers 201 with a participantId and sessionId
\* only after inserting exactly one participant row for the existing session
\* matching the trimmed code; in every other outcome (missing displayName or
\* sessionCode, no consent, unknown code, insert failure, unexpected
\* exception) it answers 400 or 500 and has inserted no participant row.
JoinAnswers ==
  /\ []RefusedOutcome
  /\ [][AnswerAfterInsert /\ NoInsertBeforeAnswer]_vars

\* the handler answered 201 to a body whose code needed trimming, and the
\* last row of the table is the one it inserted, in the session of that code
JoinAnswersWitness ==
  /\ request.stage = "responded"
  /\ request.status = 201
  /\ String(request.body.sessionCode) # trim(String(request.body.sessionCode))
  /\ participant[Len(participant)].id = request.ids.participantId
  /\ participant[Len(participant)].session_id = 2
  /\ request.ids.sessionId = 2

-----------------------------------------------------------------------------
(* Calls of computeSimilarity on identities with up to four distinct tag keys
   in a lens *)

SwapTagItems ==
  { Tag(<<"a">>, MIN_WEIGHT), Tag(<<"a">>, MAX_WEIGHT), Tag(<<"B", " ">>, MAX_WEIGHT),
    Tag(<<"c">>, MAX_WEIGHT), Tag(<<"d">>, MAX_WEIGHT) }

\* an identity of tags alone
SwapIdentity(given, chosen, core) ==
  [tags  |-> [lens \in Lens |->
                CASE lens = "GIVEN"  -> given
                  [] lens = "CHOSEN" -> chosen
                  [] lens = "CORE"   -> core],
   texts |-> [lens \in Lens |-> <<>>]]

\* the tag lists x and y stand on opposite sides in GIVEN and in CHOSEN;
\* CORE holds the tags of the symmetry test
SwapInit ==
  /\ pc = "ready"
  /\ ret = None
  /\ history = NoHistory
  /\ AppIdle
  /\ op = "computeSimilarity"
  /\ SomePairUpTo(SwapTagItems, MaxTopTags, LAMBDA x, y :
       args = [a |-> SwapIdentity(x, y, TestA.tags),
               b |-> SwapIdentity(y, x, TestB.tags)])

SwapNext == CallComputeSimilarity

SwapSpec == SwapInit /\ [][SwapNext]_vars

-----------------------------------------------------------------------------
(* C29 *)

\* overlapTags of both calls hold the same keys, uniqueToA of each holds the
\* keys of uniqueToB of the other
ListsSwapped(e, r) ==
  /\ Range(e.overlapTags) = Range(r.overlapTags)
  /\ Range(e.uniqueToA) = Range(r.uniqueToB)
  /\ Range(e.uniqueToB) = Range(r.uniqueToA)

\* a key left out of topWeights weighs as much as the last key listed
TieAtCut(top, a, b) ==
  /\ top # <<>>
  /\ \E k \in (KeysOf(a) \cup KeysOf(b)) \ Range(top) :
       MaxWeightOf(a, b, k) = MaxWeightOf(a, b, top[Len(top)])

\* topWeights of both calls list keys of the same weights, place by place,
\* and the same keys unless a key left out ties with the last one listed
TopWeightsSwapped(e, r, a, b) ==
  /\ Len(e.topWeights) = Len(r.topWeights)
  /\ \A i \in DOMAIN e.topWeights :
       MaxWeightOf(a, b, e.topWeights[i]) = MaxWeightOf(a, b, r.topWeights[i])
  /\ ~TieAtCut(e.topWeights, a, b) =>
       Range(e.topWeights) = Range(r.topWeights)

\* C29 as stated: for all A, B and every lens, computeSimilarity(A,B) and
\* computeSimilarity(B,A) have the same set of overlapTags and the same set
\* of topWeights, and uniqueToA of one equals uniqueToB of the other as sets.
ExplanationsSymmetric ==
  Done("computeSimilarity") =>
    LET rev == computeSimilarity(args.b, args.a)
    IN  \A lens \in Lens :
          /\ ListsSwapped(ret.explanations[lens], rev.explanations[lens])
          /\ Range(ret.explanations[lens].topWeights)
               = Range(rev.explanations[lens].topWeights)

\* C29: for all A, B and every lens, computeSimilarity(A,B) and
\* computeSimilarity(B,A) have the same set of overlapTags, and uniqueToA of
\* one equals uniqueToB of the other as sets; their topWeights have the same
\* length and keys of the same weight at every place, and are the same set
\* whenever no key left out weighs as much as the last key listed.
ExplanationsSwapSides ==
  Done("computeSimilarity") =>
    LET rev == computeSimilarity(args.b, args.a)
    IN  \A lens \in Lens :
          /\ ListsSwapped(ret.explanations[lens], rev.explanations[lens])
          /\ TopWeightsSwapped(ret.explanations[lens], rev.explanations[lens],
                               args.a.tags[lens], args.b.tags[lens])

\* one lens with an overlapping key and a key of each side alone, and one
\* lens of four keys where the key left out ties with the last one listed
\* and the exchanged call lists other keys
ExplanationsSwapSidesWitness ==
  /\ Done("computeSimilarity")
  /\ \E lens \in Lens :
       LET e == ret.explanations[lens]
       IN  /\ e.overlapTags # <<>> /\ e.uniqueToA # <<>> /\ e.uniqueToB # <<>>
           /\ Range(e.uniqueToA) # Range(e.uniqueToB)
  /\ \E lens \in Lens :
       LET e == ret.explanations[lens]
           r == computeSimilarity(args.b, args.a).explanations[lens]
       IN  /\ TieAtCut(e.topWeights, args.a.tags[lens], args.b.tags[lens])
           /\ Range(e.topWeights) # Range(r.topWeights)
           /\ Len(e.topWeights) = TOP_WEIGHTS

-----------------------------------------------------------------------------
(* Editing the items on My Identity (app/me/page.tsx) *)

MaxWrites == 2

\* update({ weight: newWeight }).eq('id', id) on identity_item
updateItemWeight(id, newWeight) ==
  [k \in DOMAIN identity_item |->
     IF identity_item[k].id = id
       THEN [identity_item[k] EXCEPT !.weight = newWeight]
       ELSE identity_item[k]]

\* delete().eq('id', id) on identity_item
deleteItemRow(id) == SelectSeq(identity_item, LAMBDA r : r.id # id)

\* the user moves the weight slider of an item: the page shows the new
\* weight at once and the update is sent
updateWeight(u) ==
  /\ mePage[u].open
  /\ Len(mePage[u].writes) < MaxWrites
  /\ \E k \in DOMAIN mePage[u].items :
       \E newWeight \in Weights \ {mePage[u].items[k].weight} :
         mePage' = [mePage EXCEPT
                      ![u].items[k].weight = newWeight,
                      ![u].writes = Append(@, [kind   |-> "update",
                                               id     |-> mePage[u].items[k].id,
                                               weight |-> newWeight])]
  /\ UNCHANGED <<storeVars, localStorage, joinPage, mapPage, request, adminPage>>
  /\ UNCHANGED engineVars

\* updateWeight: the update answers; a failed update changes nothing and the
\* answer is not looked at
updateWeightUpdate(u) ==
  /\ mePage[u].open
  /\ \E i \in DOMAIN mePage[u].writes : \E ok \in QueryOutcomes :
       /\ mePage[u].writes[i].kind = "update"
       /\ identity_item' =
            IF ok THEN updateItemWeight(mePage[u].writes[i].id,
                                        mePage[u].writes[i].weight)
                  ELSE identity_item
       /\ mePage' = [mePage EXCEPT ![u].writes = RemoveAt(@, i)]
  /\ UNCHANGED <<sessions, participant, uuids, now>>
  /\ UNCHANGED <<localStorage, joinPage, mapPage, request, adminPage>>
  /\ UNCHANGED engineVars

\* the user presses the cross of an item: the page drops the item at once
\* and the delete is sent
deleteItem(u) ==
  /\ mePage[u].open
  /\ Len(mePage[u].writes) < MaxWrites
  /\ \E k \in DOMAIN mePage[u].items :
       mePage' = [mePage EXCEPT
                    ![u].items = RemoveAt(@, k),
                    ![u].writes = Append(@, [kind   |-> "delete",
                                             id     |-> mePage[u].items[k].id,
                                             weight |-> 0])]
  /\ UNCHANGED <<storeVars, localStorage, joinPage, mapPage, request, adminPage>>
  /\ UNCHANGED engineVars

\* deleteItem: the delete answers; a failed delete changes nothing and the
\* answer is not looked at
deleteItemDelete(u) ==
  /\ mePage[u].open
  /\ \E i \in DOMAIN mePage[u].writes : \E ok \in QueryOutcomes :
       /\ mePage[u].writes[i].kind = "delete"
       /\ identity_item' =
            IF ok THEN deleteItemRow(mePage[u].writes[i].id)
                  ELSE identity_item
       /\ mePage' = [mePage EXCEPT ![u].writes = RemoveAt(@, i)]
  /\ UNCHANGED <<sessions, participant, uuids, now>>
  /\ UNCHANGED <<localStorage, joinPage, mapPage, request, adminPage>>
  /\ UNCHANGED engineVars

EditInit == MeInit

EditNext ==
  \/ OpenMe(Joiner)
  \/ MeLoadParticipant(Joiner)
  \/ MeLoadItems(Joiner)
  \/ updateWeight(Joiner)
  \/ updateWeightUpdate(Joiner)
  \/ deleteItem(Joiner)
  \/ deleteItemDelete(Joiner)
  \/ toggleVisibility(Joiner)
  \/ toggleVisibilityUpdate(Joiner)

EditSpec == EditInit /\ [][EditNext]_vars

-----------------------------------------------------------------------------
(* C30 *)

\* a call of updateWeight, deleteItem or toggleVisibility completes
WriteCompletes ==
  \/ updateWeightUpdate(Joiner)
  \/ deleteItemDelete(Joiner)
  \/ toggleVisibilityUpdate(Joiner)

\* the page has loaded the participant and the items and no call of it is
\* waiting for the store
PageAtRest ==
  /\ mePage[Joiner].open
  /\ mePage[Joiner].load = "none"
  /\ mePage[Joiner].error = NoValue
  /\ mePage[Joiner].writes = <<>>
  /\ mePage[Joiner].updates = <<>>

\* the items and the visibility the page shows are those of the store
PageAgrees ==
  LET page == mePage[Joiner]
      rows == SelectSeq(identity_item,
                        LAMBDA r : r.participant_id = page.participantId)
      own  == SelectSeq(participant, LAMBDA r : r.id = page.participantId)
  IN  /\ Len(page.items) = Len(rows)
      /\ \A k \in DOMAIN rows :
           /\ page.items[k].id = rows[k].id
           /\ page.items[k].weight = rows[k].weight
           /\ page.items[k].value = rows[k].value
      /\ Len(own) = 1
      /\ page.participantInfo.is_visible = own[1].is_visible

====
